---- MODULE Spec2Model ----
(***************************************************************************)
(* Transaction skeleton assembly of lumos-utils: addCells and its helpers  *)
(* (dependency merge, since merge, witness pack/unpack, fixed entries).    *)
(*                                                                         *)
(* Conventions.  Lists (immutable List, JS arrays) are TLA+ sequences;     *)
(* the source's 0-based index i is position i+1.  An optional value        *)
(* (undefined | v) is the sequence <<>> | <<v>>.  A hex string is the      *)
(* sequence of its bytes ("0x" is <<>>).  A PackedSince is the record of   *)
(* the bit fields of its 64-bit word.                                      *)
(***************************************************************************)
EXTENDS Integers, Sequences, FiniteSets, TLC

VARIABLES tx, call

vars == <<tx, call>>

\* ---------------------------------------------------------------- bounds
MaxCells == 2
MaxNew == 2
MaxDeps == 2
MaxSigning == 1
MaxDepCells == 1
MaxSinceCells == 2
MaxWitnesses == 2
MaxEpochNumber == 2
MaxEpochLength == 3
MaxSift == 3
MaxDaoCells == 2

\* deposits in a list given to daoRequestWithdrawalWith, and the largest limit
\* on the withdrawal requests it gets
MaxWithDeposits == 3

MaxWithdrawalCells == 3

\* the largest size of a transaction a fee is calculated for
MaxSize == 1001

\* outputs to fund and funding sources of either kind in a call of fund
MaxFundCells == 2

\* calls of initializeChainAdapter in a run
MaxChainCalls == 2

\* the largest secondsTimeout of a call of sendAndWaitForTransaction
MaxSecondsTimeout == 4

\* --------------------------------------------------------------- helpers
Min(a, b) == IF a < b THEN a ELSE b

Max(a, b) == IF a > b THEN a ELSE b

None == <<>>

Some(v) == <<v>>

\* Array.prototype.splice(index, 0, ...items) / List.splice(index, 0, ...items):
\* an index past the end is clamped to the end.
splice(list, index, items) ==
    LET i == Min(index, Len(list))
    IN SubSeq(list, 1, i) \o items \o SubSeq(list, i + 1, Len(list))

RECURSIVE flatten(_)
flatten(ss) == IF ss = <<>> THEN <<>> ELSE Head(ss) \o flatten(Tail(ss))

Range(s) == {s[i] : i \in DOMAIN s}

SeqsUpTo(S, n) == UNION {[1..k -> S] : k \in 0..n}

\* ------------------------------------------------------------ error names
errorDifferentIOFixedEntries == "Unable to modify entries without messing up fixed entries"

errorDifferentIOLength == "Input and output have different length"

errorNotEmptySigningEntries == "Signing Entries are not empty"

errorSinceFormat == "Since format error!"

errorBothScriptUndefined == "Comparing two Scripts that both are undefined"

errorUndefinedBlockNumber == "Encountered an input cell with blockNumber undefined"

errorDifferentSizeLock == "Withdrawal request lock has different size"

noError == "none"

\* ----------------------------------------------------------------- scripts
\* The error scriptEq throws, noError when it returns.
scriptEqError(s0, s1) == IF s0 = None /\ s1 = None THEN errorBothScriptUndefined ELSE noError

\* A plausible slip: the scripts are compared with all their fields.
scriptEqAllFields(s0, s1) ==
    IF s0 = None \/ s1 = None THEN FALSE ELSE s0[1] = s1[1]

\* What scriptEq returns when it does not throw.
scriptEq(s0, s1) ==
    IF s0 = None \/ s1 = None
    THEN FALSE
    ELSE /\ s0[1].codeHash = s1[1].codeHash
         /\ s0[1].hashType = s1[1].hashType
         /\ s0[1].args = s1[1].args

\* ------------------------------------------------------------- epoch since
\* A plausible slip: the indices are compared without the cross-multiplication.
epochSinceCompareIndices(e0, e1) ==
    IF e0.number < e1.number THEN -1
    ELSE IF e0.number > e1.number THEN 1
    ELSE IF e0.index < e1.index THEN -1 ELSE IF e0.index > e1.index THEN 1 ELSE 0

epochSinceCompare(e0, e1) ==
    IF e0.number < e1.number THEN -1
    ELSE IF e0.number > e1.number THEN 1
    ELSE LET v0 == e0.index * e1.length
             v1 == e1.index * e0.length
         IN IF v0 < v1 THEN -1 ELSE IF v0 > v1 THEN 1 ELSE 0

\* The JavaScript number that is not a number.
NaN == "NaN"

\* Math.ceil(a / b) of two non-negative integers, b > 0
ceilDiv(a, b) == (a + b - 1) \div b

\* The arithmetic is the one of JavaScript numbers, where a division or a
\* remainder by zero throws nothing: x / 0 is Infinity or NaN, Math.ceil keeps
\* both, Infinity % n and x % 0 are NaN and NaN spreads through + and -.  With a
\* zero length on either side index and number are therefore NaN.  Nothing
\* adds delta.number to the result.
epochSinceAdd(e, delta) ==
    IF e.length = 0 \/ delta.length = 0
    THEN [length |-> e.length, index |-> NaN, number |-> NaN]
    ELSE LET delta1 == IF e.length # delta.length
                       THEN [length |-> e.length,
                             index |-> ceilDiv(delta.index * e.length, delta.length),
                             number |-> delta.number]
                       ELSE delta
             rawIndex == e.index + delta1.index
             length == e.length
             index == rawIndex % length
             number == e.number + (rawIndex - index) \div length
         IN [length |-> length, index |-> index, number |-> number]

\* parseAbsoluteEpochSince of @ckb-lumos/base: the epoch value of an absolute
\* epoch since; any other since is a format error.
isAbsoluteEpochSince(s) == s.relative = "absolute" /\ s.type = "epochNumber"

parseAbsoluteEpochSince(s) == [length |-> s.length, index |-> s.index, number |-> s.number]

\* ------------------------------------------------------------ fixed entries
Fields == <<"cellDeps", "headerDeps", "inputs", "outputs">>

\* tx.fixedEntries.sort((a, b) => a.index - b.index), then Object.fromEntries
\* (a later entry of the same field overwrites an earlier one), then the
\* record defaults (-1) for the fields without an entry.
RECURSIVE fromEntries(_, _)
fromEntries(entries, obj) ==
    IF entries = <<>> THEN obj
    ELSE fromEntries(Tail(entries),
                     IF Head(entries).field \in DOMAIN obj
                     THEN [obj EXCEPT ![Head(entries).field] = Head(entries).index]
                     ELSE obj)

I8FixedEntriesFrom == [cellDeps |-> -1, headerDeps |-> -1, inputs |-> -1, outputs |-> -1]

parseFixedEntries(t) ==
    fromEntries(SortSeq(t.fixedEntries, LAMBDA a, b : a.index < b.index), I8FixedEntriesFrom)

RECURSIVE keepCommitted(_, _)
keepCommitted(parsed, fields) ==
    IF fields = <<>> THEN <<>>
    ELSE (IF parsed[Head(fields)] >= 0
          THEN <<[field |-> Head(fields), index |-> parsed[Head(fields)]]>>
          ELSE <<>>) \o keepCommitted(parsed, Tail(fields))

\* A plausible slip: the new entries are pushed and the list is kept as it is.
addFixedEntriesPushed(t, entries) == [t EXCEPT !.fixedEntries = @ \o entries]

addFixedEntries(t, entries) ==
    LET parsed == parseFixedEntries([t EXCEPT !.fixedEntries = @ \o entries])
    IN [t EXCEPT !.fixedEntries = keepCommitted(parsed, Fields)]

\* ------------------------------------------------------------ dependencies
\* `${d.outPoint.txHash}-${d.outPoint.index}-${d.depType}`
serializeCellDep(d) == <<d.outPoint.txHash, d.outPoint.index, d.depType>>

\* new Map(entries): a key keeps the position of its first insertion and the
\* value of its last one.
\* A plausible slip: setting a key again moves it to the end (delete, then insert).
mapSetMovesToEnd(m, k, v) ==
    SelectSeq(m, LAMBDA e : e[1] # k) \o <<<<k, v>>>>

RECURSIVE mapSet(_, _, _)
mapSet(m, k, v) ==
    IF m = <<>> THEN <<<<k, v>>>>
    ELSE IF Head(m)[1] = k THEN <<<<k, v>>>> \o Tail(m)
    ELSE <<Head(m)>> \o mapSet(Tail(m), k, v)

RECURSIVE newMap(_, _)
newMap(entries, m) ==
    IF entries = <<>> THEN m
    ELSE newMap(Tail(entries), mapSet(m, Head(entries)[1], Head(entries)[2]))

mapValues(m) == [i \in 1..Len(m) |-> m[i][2]]

\* new Set(list): an element keeps the position of its first insertion.
RECURSIVE newSet(_, _)
newSet(list, acc) ==
    IF list = <<>> THEN acc
    ELSE newSet(Tail(list), IF Head(list) \in Range(acc) THEN acc ELSE Append(acc, Head(list)))

\* A plausible slip: the fixed entry is computed from the list before the merge.
addCellDepsStaleBoundary(t, deps) ==
    LET pushed == t.cellDeps \o deps
        cellDeps == mapValues(newMap([i \in 1..Len(pushed) |-> <<serializeCellDep(pushed[i]), pushed[i]>>], <<>>))
        t1 == addFixedEntries(t, <<[field |-> "cellDeps", index |-> Len(t.cellDeps) - 1]>>)
    IN [t1 EXCEPT !.cellDeps = cellDeps]

addCellDeps(t, deps) ==
    LET pushed == t.cellDeps \o deps
        cellDeps == mapValues(newMap([i \in 1..Len(pushed) |-> <<serializeCellDep(pushed[i]), pushed[i]>>], <<>>))
        t1 == addFixedEntries(t, <<[field |-> "cellDeps", index |-> Len(cellDeps) - 1]>>)
    IN [t1 EXCEPT !.cellDeps = cellDeps]

\* A plausible slip: the new header deps go in front of the existing ones.
addHeaderDepsInFront(t, headers) ==
    LET headerDeps == newSet(headers \o t.headerDeps, <<>>)
        t1 == addFixedEntries(t, <<[field |-> "headerDeps", index |-> Len(headerDeps) - 1]>>)
    IN [t1 EXCEPT !.headerDeps = headerDeps]

addHeaderDeps(t, headers) ==
    LET headerDeps == newSet(t.headerDeps \o headers, <<>>)
        t1 == addFixedEntries(t, <<[field |-> "headerDeps", index |-> Len(headerDeps) - 1]>>)
    IN [t1 EXCEPT !.headerDeps = headerDeps]

\* The type scripts of a list of cells, the cells without a type skipped.
typesOf(cells) == flatten([i \in 1..Len(cells) |-> cells[i].type])

\* A plausible slip: the type scripts of the outputs are left out.
addCellDepsFromInputsOnly(t, inputs, outputs) ==
    LET lockDeps == flatten([i \in 1..Len(inputs) |-> inputs[i].lock.cellDeps])
        types == typesOf(inputs)
        typeDeps == flatten([i \in 1..Len(types) |-> types[i].cellDeps])
    IN addCellDeps(t, lockDeps \o typeDeps)

addCellDepsFrom(t, inputs, outputs) ==
    LET lockDeps == flatten([i \in 1..Len(inputs) |-> inputs[i].lock.cellDeps])
        types == typesOf(inputs \o outputs)
        typeDeps == flatten([i \in 1..Len(types) |-> types[i].cellDeps])
    IN addCellDeps(t, lockDeps \o typeDeps)

addHeaderDepsFrom(t, inputs, outputs) ==
    LET lockDeps == flatten([i \in 1..Len(inputs) |-> inputs[i].lock.headerDeps])
        types == typesOf(inputs \o outputs)
        typeDeps == flatten([i \in 1..Len(types) |-> types[i].headerDeps])
        headerDeps == lockDeps \o typeDeps
    IN addHeaderDeps(t, [i \in 1..Len(headerDeps) |-> headerDeps[i].hash])

\* ------------------------------------------------------------------ sinces
\* The since of one new input; typeSince is c.type?.since.
typeSinceOf(c) == IF c.type = None THEN None ELSE c.type[1].since

\* A plausible slip: the comparison is inverted, the earlier since wins.
newSinceOfEarlier(c) ==
    LET lockSince == c.lock.since
        typeSince == typeSinceOf(c)
    IN IF lockSince = None \/ typeSince = None \/ lockSince = typeSince
       THEN (IF lockSince # None THEN lockSince ELSE typeSince)
       ELSE IF epochSinceCompare(parseAbsoluteEpochSince(lockSince[1]),
                                 parseAbsoluteEpochSince(typeSince[1])) = 1
            THEN typeSince
            ELSE lockSince

newSinceOf(c) ==
    LET lockSince == c.lock.since
        typeSince == typeSinceOf(c)
    IN IF lockSince = None \/ typeSince = None \/ lockSince = typeSince
       THEN (IF lockSince # None THEN lockSince ELSE typeSince)
       ELSE IF epochSinceCompare(parseAbsoluteEpochSince(lockSince[1]),
                                 parseAbsoluteEpochSince(typeSince[1])) = -1
            THEN typeSince
            ELSE lockSince

\* parseAbsoluteEpochSince throws on a since that is not an absolute epoch.
newSinceThrows(c) ==
    LET lockSince == c.lock.since
        typeSince == typeSinceOf(c)
    IN /\ ~(lockSince = None \/ typeSince = None \/ lockSince = typeSince)
       /\ (~isAbsoluteEpochSince(lockSince[1]) \/ ~isAbsoluteEpochSince(typeSince[1]))

addSincesFromThrows(inputs) == \E i \in 1..Len(inputs) : newSinceThrows(inputs[i])

\* A plausible slip: the new sinces are appended instead of spliced in.
addSincesFromAtEnd(t, inputSplicingIndex, inputs) ==
    LET sinces == [i \in 1..Len(t.inputs) |->
                      IF (i - 1) \in DOMAIN t.inputSinces THEN Some(t.inputSinces[i - 1]) ELSE None]
        newSinces == [i \in 1..Len(inputs) |-> newSinceOf(inputs[i])]
        spliced == sinces \o newSinces
    IN [t EXCEPT !.inputSinces =
           [i \in {j \in 0..(Len(spliced) - 1) : spliced[j + 1] # None} |-> spliced[i + 1][1]]]

addSincesFrom(t, inputSplicingIndex, inputs) ==
    LET sinces == [i \in 1..Len(t.inputs) |->
                      IF (i - 1) \in DOMAIN t.inputSinces THEN Some(t.inputSinces[i - 1]) ELSE None]
        newSinces == [i \in 1..Len(inputs) |-> newSinceOf(inputs[i])]
        spliced == splice(sinces, inputSplicingIndex, newSinces)
    IN [t EXCEPT !.inputSinces =
           [i \in {j \in 0..(Len(spliced) - 1) : spliced[j + 1] # None} |-> spliced[i + 1][1]]]

\* --------------------------------------------------------------- witnesses
\* molecule: a little-endian u32
u32le(n) == <<n % 256, (n \div 256) % 256, (n \div 65536) % 256, (n \div 16777216) % 256>>

readU32(b, off) == b[off + 1] + 256 * b[off + 2] + 65536 * b[off + 3] + 16777216 * b[off + 4]

\* molecule BytesOpt: absent is no byte at all, present is a length-prefixed vector
packBytesOpt(o) == IF o = None THEN <<>> ELSE u32le(Len(o[1])) \o o[1]

\* molecule table WitnessArgs {lock, inputType, outputType}: total size, one
\* offset per field, then the fields
WitnessArgsPack(w) ==
    LET f1 == packBytesOpt(w.lock)
        f2 == packBytesOpt(w.inputType)
        f3 == packBytesOpt(w.outputType)
        o1 == 16
        o2 == o1 + Len(f1)
        o3 == o2 + Len(f2)
    IN u32le(o3 + Len(f3)) \o u32le(o1) \o u32le(o2) \o u32le(o3) \o f1 \o f2 \o f3

unpackBytesOpt(b, from, to) ==
    IF to = from THEN None ELSE Some(SubSeq(b, from + 5, from + 4 + readU32(b, from)))

WitnessArgsUnpack(b) ==
    LET total == readU32(b, 0)
        o1 == readU32(b, 4)
        o2 == readU32(b, 8)
        o3 == readU32(b, 12)
    IN [lock |-> unpackBytesOpt(b, o1, o2),
        inputType |-> unpackBytesOpt(b, o2, o3),
        outputType |-> unpackBytesOpt(b, o3, total)]

witnessPadding == WitnessArgsPack([lock |-> Some(<<>>), inputType |-> None, outputType |-> None])

typeWitnessOf(c) == IF c.type = None THEN None ELSE c.type[1].witness

RECURSIVE trimPadding(_)

\* A plausible slip: only one trailing placeholder is popped.
trimPaddingOnce(witnesses) ==
    IF witnesses # <<>> /\ witnesses[Len(witnesses)] = witnessPadding
    THEN SubSeq(witnesses, 1, Len(witnesses) - 1)
    ELSE witnesses

\* while (witnesses.at(-1) === witnessPadding) witnesses.pop()
trimPadding(witnesses) ==
    IF witnesses # <<>> /\ witnesses[Len(witnesses)] = witnessPadding
    THEN trimPadding(SubSeq(witnesses, 1, Len(witnesses) - 1))
    ELSE witnesses

\* A plausible slip: the type witnesses of the new outputs are spliced at the
\* index of the inputs.
addWitnessesFromOneIndex(t, inputSplicingIndex, inputs, outputSplicingIndex, outputs) ==
    LET witnessesLength ==
            Max(Max(Max(Len(t.inputs), Len(t.outputs)), Len(t.witnesses)),
                Max(inputSplicingIndex, outputSplicingIndex))
        unpacked == [i \in 1..witnessesLength |->
                        WitnessArgsUnpack(IF i <= Len(t.witnesses) THEN t.witnesses[i] ELSE witnessPadding)]
        lockWs0 == [i \in 1..witnessesLength |->
                        IF unpacked[i].lock = None THEN <<>> ELSE unpacked[i].lock[1]]
        inputTypeWs0 == [i \in 1..witnessesLength |-> unpacked[i].inputType]
        outputTypeWs0 == [i \in 1..witnessesLength |-> unpacked[i].outputType]
        lockWs == splice(lockWs0, inputSplicingIndex,
                         [i \in 1..Len(inputs) |->
                             IF inputs[i].lock.witness = None THEN <<>> ELSE inputs[i].lock.witness[1]])
        inputTypeWs == splice(inputTypeWs0, inputSplicingIndex,
                              [i \in 1..Len(inputs) |-> typeWitnessOf(inputs[i])])
        outputTypeWs == splice(outputTypeWs0, inputSplicingIndex,
                               [i \in 1..Len(outputs) |-> typeWitnessOf(outputs[i])])
        foldedLength == IF Len(inputTypeWs) > Len(outputTypeWs) THEN Len(inputTypeWs) ELSE Len(outputTypeWs)
        witnesses == [i \in 1..foldedLength |->
                         WitnessArgsPack([lock |-> Some(IF i <= Len(lockWs) THEN lockWs[i] ELSE <<>>),
                                          inputType |-> IF i <= Len(inputTypeWs) THEN inputTypeWs[i] ELSE None,
                                          outputType |-> IF i <= Len(outputTypeWs) THEN outputTypeWs[i] ELSE None])]
    IN [t EXCEPT !.witnesses = trimPadding(witnesses)]

addWitnessesFrom(t, inputSplicingIndex, inputs, outputSplicingIndex, outputs) ==
    LET witnessesLength ==
            Max(Max(Max(Len(t.inputs), Len(t.outputs)), Len(t.witnesses)),
                Max(inputSplicingIndex, outputSplicingIndex))
        unpacked == [i \in 1..witnessesLength |->
                        WitnessArgsUnpack(IF i <= Len(t.witnesses) THEN t.witnesses[i] ELSE witnessPadding)]
        lockWs0 == [i \in 1..witnessesLength |->
                        IF unpacked[i].lock = None THEN <<>> ELSE unpacked[i].lock[1]]
        inputTypeWs0 == [i \in 1..witnessesLength |-> unpacked[i].inputType]
        outputTypeWs0 == [i \in 1..witnessesLength |-> unpacked[i].outputType]
        lockWs == splice(lockWs0, inputSplicingIndex,
                         [i \in 1..Len(inputs) |->
                             IF inputs[i].lock.witness = None THEN <<>> ELSE inputs[i].lock.witness[1]])
        inputTypeWs == splice(inputTypeWs0, inputSplicingIndex,
                              [i \in 1..Len(inputs) |-> typeWitnessOf(inputs[i])])
        outputTypeWs == splice(outputTypeWs0, outputSplicingIndex,
                               [i \in 1..Len(outputs) |-> typeWitnessOf(outputs[i])])
        foldedLength == IF Len(inputTypeWs) > Len(outputTypeWs) THEN Len(inputTypeWs) ELSE Len(outputTypeWs)
        witnesses == [i \in 1..foldedLength |->
                         WitnessArgsPack([lock |-> Some(IF i <= Len(lockWs) THEN lockWs[i] ELSE <<>>),
                                          inputType |-> IF i <= Len(inputTypeWs) THEN inputTypeWs[i] ELSE None,
                                          outputType |-> IF i <= Len(outputTypeWs) THEN outputTypeWs[i] ELSE None])]
    IN [t EXCEPT !.witnesses = trimPadding(witnesses)]

\* ---------------------------------------------------------------- addCells
\* A plausible slip: the length check is missing.
addCellsErrorLengthUnchecked(t, mode, inputs, outputs) ==
    LET fixedEntries == parseFixedEntries(t)
    IN IF mode = "matched" /\ fixedEntries.inputs # fixedEntries.outputs THEN errorDifferentIOFixedEntries
       ELSE IF mode = "matched" /\ Len(t.signingEntries) > 0 THEN errorNotEmptySigningEntries
       ELSE IF addSincesFromThrows(inputs) THEN errorSinceFormat
       ELSE noError

\* A plausible slip: the fixed entries check is missing.
addCellsErrorFixedUnchecked(t, mode, inputs, outputs) ==
    IF mode = "matched" /\ Len(inputs) # Len(outputs) THEN errorDifferentIOLength
    ELSE IF mode = "matched" /\ Len(t.signingEntries) > 0 THEN errorNotEmptySigningEntries
    ELSE IF addSincesFromThrows(inputs) THEN errorSinceFormat
    ELSE noError

\* A plausible slip: the signing entries check applies to every mode.
addCellsErrorSigningAnyMode(t, mode, inputs, outputs) ==
    LET fixedEntries == parseFixedEntries(t)
    IN IF mode = "matched" /\ Len(inputs) # Len(outputs) THEN errorDifferentIOLength
       ELSE IF mode = "matched" /\ fixedEntries.inputs # fixedEntries.outputs THEN errorDifferentIOFixedEntries
       ELSE IF Len(t.signingEntries) > 0 THEN errorNotEmptySigningEntries
       ELSE IF addSincesFromThrows(inputs) THEN errorSinceFormat
       ELSE noError

\* The error addCells throws, noError when it returns.
addCellsError(t, mode, inputs, outputs) ==
    LET fixedEntries == parseFixedEntries(t)
    IN IF mode = "matched" /\ Len(inputs) # Len(outputs) THEN errorDifferentIOLength
       ELSE IF mode = "matched" /\ fixedEntries.inputs # fixedEntries.outputs THEN errorDifferentIOFixedEntries
       ELSE IF mode = "matched" /\ Len(t.signingEntries) > 0 THEN errorNotEmptySigningEntries
       ELSE IF addSincesFromThrows(inputs) THEN errorSinceFormat
       ELSE noError

\* A plausible slip: matched mode splices at the end, as append does.
splicingIndexAtEnd(fix, boundary, size) == size

\* A plausible slip: matched mode splices at the start of the list.
splicingIndexAtStart(fix, boundary, size) == IF fix THEN 0 ELSE size

\* A plausible slip: append mode splices after the fixed boundary too.
splicingIndexAfterBoundary(fix, boundary, size) == boundary + 1

\* fix ? fixedEntries.inputs + 1 : tx.inputs.size
splicingIndex(fix, boundary, size) == IF fix THEN boundary + 1 ELSE size

\* The skeleton addCells returns when it does not throw.
addCells(t, mode, inputs, outputs) ==
    LET fixedEntries == parseFixedEntries(t)
        fix == mode = "matched"
        inputSplicingIndex == splicingIndex(fix, fixedEntries.inputs, Len(t.inputs))
        outputSplicingIndex == splicingIndex(fix, fixedEntries.outputs, Len(t.outputs))
        t1 == addCellDepsFrom(t, inputs, outputs)
        t2 == addHeaderDepsFrom(t1, inputs, outputs)
        t3 == addSincesFrom(t2, inputSplicingIndex, inputs)
        t4 == addWitnessesFrom(t3, inputSplicingIndex, inputs, outputSplicingIndex, outputs)
        t5 == [t4 EXCEPT !.inputs = splice(@, inputSplicingIndex, inputs)]
        t6 == [t5 EXCEPT !.outputs = splice(@, outputSplicingIndex, outputs)]
    IN IF fix
       THEN addFixedEntries(t6, <<[field |-> "inputs", index |-> fixedEntries.inputs + Len(inputs)],
                                  [field |-> "outputs", index |-> fixedEntries.outputs + Len(outputs)]>>)
       ELSE t6

\* ------------------------------------------------------------ the universe
I8OutPointFrom(txHash, index) == [txHash |-> txHash, index |-> index]

I8CellDepFrom(txHash, index, depType) == [outPoint |-> I8OutPointFrom(txHash, index), depType |-> depType]

\* The epoch field is kept parsed (parseEpoch); the default is the one of "0x0000000000000000".
I8HeaderFrom(hash, number) ==
    [hash |-> hash, number |-> number, epoch |-> [length |-> 0, index |-> 0, number |-> 0],
     dao |-> [ar |-> 0]]

I8ScriptFrom(codeHash, args, cellDeps, headerDeps, witness, since) ==
    [codeHash |-> codeHash, hashType |-> "data", args |-> args,
     cellDeps |-> cellDeps, headerDeps |-> headerDeps, witness |-> witness, since |-> since]

\* A capacity is a number of shannons, kept as whole CKB (10^8 shannons) and
\* the shannons left, which keeps 61 CKB and the like within the integers of
\* the model checker.
Capacity(ckb, shannons) == [ckb |-> ckb, shannons |-> shannons]

\* The arithmetic of BI on amounts of shannons: the sum and the difference,
\* which may be negative (the whole CKB are, the shannons left never), the
\* order, and a * n / d rounded down for an amount a >= 0 and small n, d > 0.
BIfrom(ckb, shannons) == Capacity(ckb + shannons \div 10^8, shannons % 10^8)

zero == Capacity(0, 0)

BIadd(a, b) == BIfrom(a.ckb + b.ckb, a.shannons + b.shannons)

BIsub(a, b) == BIfrom(a.ckb - b.ckb, a.shannons - b.shannons)

BIgt(a, b) == a.ckb > b.ckb \/ (a.ckb = b.ckb /\ a.shannons > b.shannons)

BIgte(a, b) == a = b \/ BIgt(a, b)

BImulDiv(a, n, d) ==
    LET ckb == a.ckb * n
    IN BIfrom(ckb \div d, ((ckb % d) * 10^8 + a.shannons * n) \div d)

\* The default of the capacity field of the record: "0x40"
defaultCapacity == Capacity(0, 64)

\* The values a caller gives for a cell found on chain: lock, type and
\* outPoint, everything else left unset.
I8Cellable(outPoint, lock, type) ==
    [capacity |-> None, lock |-> lock, type |-> type, data |-> None,
     outPoint |-> Some(outPoint), blockHash |-> None, blockNumber |-> None]

\* minimalScriptCapacityCompatible of @ckb-lumos/helpers: code hash, hash type, args
minimalScriptCapacity(script) == 32 + 1 + Len(script.args)

\* minimalCellCapacityCompatible of @ckb-lumos/helpers: one CKB per byte of the
\* capacity field, the lock, the type and the data
minimalCellCapacity(c) ==
    Capacity(8 + minimalScriptCapacity(c.lock)
               + (IF c.type = None THEN 0 ELSE minimalScriptCapacity(c.type[1]))
               + Len(c.data),
             0)

\* new _I8Cell(values): the record with its defaults, then the capacity is
\* replaced when it equals the one of the cleared record, the default.
I8CellFrom(values) ==
    LET c == [capacity |-> IF values.capacity = None THEN defaultCapacity ELSE values.capacity[1],
              lock |-> values.lock,
              type |-> values.type,
              data |-> IF values.data = None THEN <<>> ELSE values.data[1],
              outPoint |-> values.outPoint,
              blockHash |-> values.blockHash,
              blockNumber |-> values.blockNumber]
    IN IF c.capacity = defaultCapacity
       THEN [c EXCEPT !.capacity = minimalCellCapacity(c)]
       ELSE c

epochSince(number, index, length) ==
    [relative |-> "absolute", type |-> "epochNumber", number |-> number, index |-> index, length |-> length]

\* cell deps that differ in one component of their identity only
depA == I8CellDepFrom("0xaa", "0x0", "code")

depB == I8CellDepFrom("0xaa", "0x0", "depGroup")

depC == I8CellDepFrom("0xaa", "0x1", "code")

depD == I8CellDepFrom("0xbb", "0x0", "code")

CellDeps == {depA, depB, depC}

header1 == I8HeaderFrom("0xh1", 1)

header2 == I8HeaderFrom("0xh2", 2)

Hashes == {header1.hash, header2.hash}

\* a plain capacity cell of an account: the lock carries its dep and no witness
cellA ==
    I8CellFrom(I8Cellable(I8OutPointFrom("0x01", "0x0"),
               I8ScriptFrom("secp", <<1>>, <<depA>>, <<>>, None, None),
               None))

\* a typed cell: the type carries deps, headers, a since and a witness
cellB ==
    I8CellFrom(I8Cellable(I8OutPointFrom("0x02", "0x0"),
               I8ScriptFrom("secp", <<1>>, <<depA>>, <<>>, None, None),
               Some(I8ScriptFrom("dao", <<>>, <<depB, depA>>, <<header1, header2>>,
                                 Some(<<7>>), Some(epochSince(2, 0, 1))))))

\* a cell whose lock carries a dep and a header that no other script carries,
\* and whose lock and type both carry a witness
cellC ==
    I8CellFrom(I8Cellable(I8OutPointFrom("0x03", "0x0"),
               I8ScriptFrom("custom", <<2>>, <<depD>>, <<header2>>, Some(<<9>>), Some(epochSince(1, 1, 2))),
               Some(I8ScriptFrom("sudt", <<3>>, <<depC>>, <<header1>>, Some(<<5>>), None))))

Cells == {cellA, cellC}

DepCells == {cellB}

\* an input whose lock and type carry the given sinces (None for no since)
sinceCell(txHash, lockSince, typeSince) ==
    I8CellFrom(I8Cellable(I8OutPointFrom(txHash, "0x0"),
               I8ScriptFrom("secp", <<1>>, <<>>, <<>>, None, lockSince),
               Some(I8ScriptFrom("dao", <<>>, <<>>, <<>>, None, typeSince))))

relativeSince(number) ==
    [relative |-> "relative", type |-> "epochNumber", number |-> number, index |-> 0, length |-> 1]

sinceNeither == sinceCell("0x10", None, None)

sinceLockOnly == sinceCell("0x11", Some(epochSince(1, 0, 1)), None)

sinceTypeOnly == sinceCell("0x12", None, Some(epochSince(2, 0, 1)))

sinceSame == sinceCell("0x13", Some(epochSince(2, 1, 2)), Some(epochSince(2, 1, 2)))

sinceLockLater == sinceCell("0x14", Some(epochSince(3, 0, 1)), Some(epochSince(2, 1, 2)))

sinceTypeLater == sinceCell("0x15", Some(epochSince(2, 1, 3)), Some(epochSince(2, 1, 2)))

sinceTie == sinceCell("0x16", Some(epochSince(2, 1, 2)), Some(epochSince(2, 2, 4)))

sinceRelative == sinceCell("0x17", Some(relativeSince(5)), Some(epochSince(2, 0, 1)))

SinceCells ==
    {cellA, sinceNeither, sinceLockOnly, sinceTypeOnly, sinceSame,
     sinceLockLater, sinceTypeLater, sinceTie, sinceRelative}

\* ---------------------------------------------------------------- the dao
DEPOSIT_DATA == <<0, 0, 0, 0, 0, 0, 0, 0>>

\* defaultScript("DAO"): the script of the configuration with its cell dep
defaultDaoScript ==
    [I8ScriptFrom("dao", <<>>, <<depB>>, <<>>, None, None) EXCEPT !.hashType = "type"]

isDao(c) == scriptEq(c.type, Some(defaultDaoScript))

\* Uint64.unpack: eight bytes, little-endian
RECURSIVE Uint64Unpack(_)
Uint64Unpack(data) == IF data = <<>> THEN 0 ELSE Head(data) + 256 * Uint64Unpack(Tail(data))

\* calculateDaoEarliestSinceCompatible of @ckb-lumos/common-scripts: the deposit
\* epoch plus the epochs deposited so far, rounded up to whole periods of 180
\* epochs, as an absolute epoch since.
calculateDaoEarliestSince(depositEpoch, withdrawEpoch) ==
    LET withdrawFraction == withdrawEpoch.index * depositEpoch.length
        depositFraction == depositEpoch.index * withdrawEpoch.length
        depositedEpochs == (withdrawEpoch.number - depositEpoch.number)
                              + (IF withdrawFraction > depositFraction THEN 1 ELSE 0)
        lockEpochs == ((depositedEpochs + 180 - 1) \div 180) * 180
    IN epochSince(depositEpoch.number + lockEpochs, depositEpoch.index, depositEpoch.length)

\* The lock of the account, with the cell dep and the witness placeholder the
\* plain lock of a cell does not carry.
accountLock == I8ScriptFrom("secp", <<1>>, <<depA>>, <<>>, Some(<<0, 0>>), None)

\* accountLockExpander of a caller with one account: the lock of the account
\* for its cells, undefined for the others.
accountLockExpander(c) == IF scriptEq(Some(c.lock), Some(accountLock)) THEN Some(accountLock) ELSE None

\* The headers of the chain the caller's getHeader knows, by block number.
chainHeader(hash, number, epochNumber, epochIndex, epochLength, ar) ==
    [I8HeaderFrom(hash, number) EXCEPT
        !.epoch = [length |-> epochLength, index |-> epochIndex, number |-> epochNumber],
        !.dao = [ar |-> ar]]

chainHeaders ==
    <<chainHeader("0xc1", 1, 10, 1, 4, 10), chainHeader("0xc2", 2, 10, 3, 4, 11),
      chainHeader("0xc3", 3, 12, 0, 4, 12)>>

getHeader(blockNumber) == chainHeaders[blockNumber]

\* A plausible slip: the deposit header comes before the header of the cell.
extendCellPreviousFirst(c, lock, header, previousHeader, packedSince) ==
    [c EXCEPT !.lock = lock,
              !.type = Some([defaultDaoScript EXCEPT
                                !.headerDeps = IF previousHeader # None THEN <<previousHeader[1], header>> ELSE <<header>>,
                                !.since = IF packedSince # None THEN packedSince ELSE defaultDaoScript.since]),
              !.blockHash = Some(header.hash)]

extendCell(c, lock, header, previousHeader, packedSince) ==
    [c EXCEPT !.lock = lock,
              !.type = Some([defaultDaoScript EXCEPT
                                !.headerDeps = IF previousHeader # None THEN <<header, previousHeader[1]>> ELSE <<header>>,
                                !.since = IF packedSince # None THEN packedSince ELSE defaultDaoScript.since]),
              !.blockHash = Some(header.hash)]

\* The loop of daoSifter from input i on; sifted holds the three lists so far.
\* A thrown error ends the loop.
RECURSIVE daoSifterFrom(_, _, _)
daoSifterFrom(inputs, i, sifted) ==
    IF i > Len(inputs) THEN sifted
    ELSE LET c == inputs[i]
             lock == accountLockExpander(c)
         IN IF lock = None \/ ~isDao(c)
            THEN daoSifterFrom(inputs, i + 1, [sifted EXCEPT !.notDaos = Append(@, c)])
            ELSE IF c.blockNumber = None
            THEN [sifted EXCEPT !.err = errorUndefinedBlockNumber]
            ELSE LET h == getHeader(c.blockNumber[1])
                 IN IF c.data = DEPOSIT_DATA
                    THEN daoSifterFrom(inputs, i + 1,
                             [sifted EXCEPT !.deposits = Append(@, extendCell(c, lock[1], h, None, None))])
                    ELSE LET h1 == getHeader(Uint64Unpack(c.data))
                             since == calculateDaoEarliestSince(h1.epoch, h.epoch)
                         IN daoSifterFrom(inputs, i + 1,
                                [sifted EXCEPT !.withdrawalRequests =
                                    Append(@, extendCell(c, lock[1], h, Some(h1), Some(since)))])

\* A plausible slip: the error of the loop is lost and the lists sifted so far
\* are returned.
daoSifterNoThrow(inputs) ==
    [daoSifterFrom(inputs, 1, [deposits |-> <<>>, withdrawalRequests |-> <<>>, notDaos |-> <<>>, err |-> noError])
        EXCEPT !.err = noError]

\* The three lists daoSifter returns, and the error it throws (noError when it
\* returns).
daoSifter(inputs) ==
    daoSifterFrom(inputs, 1, [deposits |-> <<>>, withdrawalRequests |-> <<>>, notDaos |-> <<>>, err |-> noError])

\* A cell as the indexer returns it: plain lock and type, data, block number.
chainCell(txHash, lock, type, data, blockNumber) ==
    I8CellFrom([I8Cellable(I8OutPointFrom(txHash, "0x0"), lock, type) EXCEPT
                   !.capacity = Some(Capacity(200, 0)), !.data = Some(data), !.blockNumber = blockNumber])

plainLock(args) == I8ScriptFrom("secp", args, <<>>, <<>>, None, None)

plainDaoType == [I8ScriptFrom("dao", <<>>, <<>>, <<>>, None, None) EXCEPT !.hashType = "type"]

\* a deposit of the account, made in block 1
depositCell == chainCell("0x20", plainLock(<<1>>), Some(plainDaoType), DEPOSIT_DATA, Some(1))

\* a withdrawal request of the account, made in block 3 for a deposit of block 2
withdrawalRequestCell ==
    chainCell("0x21", plainLock(<<1>>), Some(plainDaoType), <<2, 0, 0, 0, 0, 0, 0, 0>>, Some(3))

\* a deposit of somebody else
foreignDepositCell == chainCell("0x22", plainLock(<<2>>), Some(plainDaoType), DEPOSIT_DATA, Some(1))

\* a cell of the account without type and one with another type
capacityCell == chainCell("0x23", plainLock(<<1>>), None, <<>>, Some(2))

sudtCell ==
    chainCell("0x24", plainLock(<<1>>), Some(I8ScriptFrom("sudt", <<3>>, <<>>, <<>>, None, None)),
              DEPOSIT_DATA, Some(2))

\* a deposit of the account whose block number is not known
unnumberedDepositCell == chainCell("0x25", plainLock(<<1>>), Some(plainDaoType), DEPOSIT_DATA, None)

\* a deposit of somebody else whose block number is not known
foreignUnnumberedDepositCell == chainCell("0x26", plainLock(<<2>>), Some(plainDaoType), DEPOSIT_DATA, None)

SiftCells ==
    {depositCell, withdrawalRequestCell, foreignDepositCell, capacityCell, sudtCell, unnumberedDepositCell,
     foreignUnnumberedDepositCell}

\* Uint64.pack: eight bytes, little-endian
RECURSIVE bytesLE(_, _)
bytesLE(n, size) == IF size = 0 THEN <<>> ELSE <<n % 256>> \o bytesLE(n \div 256, size - 1)

Uint64Pack(n) == bytesLE(n, 8)

\* The withdrawal request daoRequestWithdrawalFrom makes of a deposit: its
\* cellOutput (capacity, lock, type) and the block number of the deposit as data.
withdrawalRequestOf(d) ==
    I8CellFrom([capacity |-> Some(d.capacity), lock |-> d.lock, type |-> d.type,
                data |-> Some(Uint64Pack(d.blockNumber[1])),
                outPoint |-> None, blockHash |-> None, blockNumber |-> None])

\* A plausible slip: only the lock of the first deposit is checked.
daoRequestWithdrawalFromErrorFirstOnly(t, deposits, lock) ==
    IF deposits # <<>> /\ Len(deposits[1].lock.args) # Len(lock.args)
    THEN errorDifferentSizeLock
    ELSE addCellsError(t, "matched", deposits, [i \in 1..Len(deposits) |-> withdrawalRequestOf(deposits[i])])

\* The error daoRequestWithdrawalFrom throws, noError when it returns: the
\* loop over the deposits throws before addCells is called.
daoRequestWithdrawalFromError(t, deposits, lock) ==
    IF \E i \in 1..Len(deposits) : Len(deposits[i].lock.args) # Len(lock.args)
    THEN errorDifferentSizeLock
    ELSE addCellsError(t, "matched", deposits, [i \in 1..Len(deposits) |-> withdrawalRequestOf(deposits[i])])

\* The skeleton daoRequestWithdrawalFrom returns when it does not throw.
\* A plausible slip: the deposits and their requests are appended.
daoRequestWithdrawalFromAppended(t, deposits, lock) ==
    addCells(t, "append", deposits, [i \in 1..Len(deposits) |-> withdrawalRequestOf(deposits[i])])

daoRequestWithdrawalFrom(t, deposits, lock) ==
    addCells(t, "matched", deposits, [i \in 1..Len(deposits) |-> withdrawalRequestOf(deposits[i])])

\* The deposits a caller got from daoSifter: two of the account, made in
\* blocks 1 and 2, and one whose lock has longer args.
laterDepositCell == chainCell("0x27", plainLock(<<1>>), Some(plainDaoType), DEPOSIT_DATA, Some(2))

longAccountLock == I8ScriptFrom("secp", <<1, 2>>, <<depA>>, <<>>, Some(<<0, 0>>), None)

siftedDeposit == daoSifter(<<depositCell>>).deposits[1]

siftedLaterDeposit == daoSifter(<<laterDepositCell>>).deposits[1]

siftedLongLockDeposit ==
    extendCell(chainCell("0x28", plainLock(<<1, 2>>), Some(plainDaoType), DEPOSIT_DATA, Some(1)),
               longAccountLock, getHeader(1), None, None)

SiftedDeposits == {siftedDeposit, siftedLaterDeposit, siftedLongLockDeposit}

AccountLocks == {accountLock, longAccountLock}

\* new Map(tx.headerDeps.map((h, i) => [h, i])).get(hash): the 0-based index of
\* the hash, the last one should the list hold it twice.
header2index(headerDeps, hash) ==
    (CHOOSE i \in 1..Len(headerDeps) :
        headerDeps[i] = hash /\ \A j \in (i + 1)..Len(headerDeps) : headerDeps[j] # hash) - 1

\* A plausible slip: the index is the one of the first header of the request,
\* the header of the withdrawal request itself.
processedRequestFirstHeader(headerDeps, r) ==
    LET depositHeader == r.type[1].headerDeps[1]
    IN [r EXCEPT !.type = Some([r.type[1] EXCEPT
                                   !.witness = Some(Uint64Pack(header2index(headerDeps, depositHeader.hash)))])]

\* The request with the index of its deposit header as witness of its type.
processedRequest(headerDeps, r) ==
    LET depositHeader == r.type[1].headerDeps[Len(r.type[1].headerDeps)]
    IN [r EXCEPT !.type = Some([r.type[1] EXCEPT
                                   !.witness = Some(Uint64Pack(header2index(headerDeps, depositHeader.hash)))])]

\* The skeleton daoWithdrawFrom returns: the headers of the requests are
\* added first, then the requests are appended as inputs.
daoWithdrawFrom(t, withdrawalRequests) ==
    LET headers == flatten([i \in 1..Len(withdrawalRequests) |-> withdrawalRequests[i].type[1].headerDeps])
        t1 == addHeaderDeps(t, [i \in 1..Len(headers) |-> headers[i].hash])
        processedRequests == [i \in 1..Len(withdrawalRequests) |->
                                 processedRequest(t1.headerDeps, withdrawalRequests[i])]
    IN addCells(t1, "append", processedRequests, <<>>)

\* The withdrawal requests a caller got from daoSifter: one made in block 3
\* for a deposit of block 2, one made in block 3 for a deposit of block 1.
earlierWithdrawalRequestCell ==
    chainCell("0x29", plainLock(<<1>>), Some(plainDaoType), <<1, 0, 0, 0, 0, 0, 0, 0>>, Some(3))

siftedRequest == daoSifter(<<withdrawalRequestCell>>).withdrawalRequests[1]

siftedEarlierRequest == daoSifter(<<earlierWithdrawalRequestCell>>).withdrawalRequests[1]

SiftedRequests == {siftedRequest, siftedEarlierRequest}

\* calculateMaximumWithdrawCompatible of @ckb-lumos/common-scripts: the
\* capacity above the occupied one grows with the accumulated rate (AR) of the
\* dao field of the two headers, the occupied capacity does not.
calculateMaximumWithdraw(c, depositDao, withdrawDao) ==
    LET occupiedCapacity == minimalCellCapacity(c)
        countedCapacity == BIsub(c.capacity, occupiedCapacity)
    IN BIadd(BImulDiv(countedCapacity, withdrawDao.ar, depositDao.ar), occupiedCapacity)

withdrawalAmountEstimation(deposit, withdrawalRequestDao) ==
    calculateMaximumWithdraw(deposit, deposit.type[1].headerDeps[1].dao, withdrawalRequestDao)

\* generateHeaderEpoch and parseEpoch of @ckb-lumos/base are inverse to each
\* other on the epochs of headers, which are epoch values here.
withdrawalEpochEstimation(deposit, withdrawalRequestEpoch) ==
    parseAbsoluteEpochSince(
        calculateDaoEarliestSince(deposit.type[1].headerDeps[1].epoch, withdrawalRequestEpoch))

\* Array.prototype.sort with epochSinceCompare on the withdrawal epochs: the
\* sort is stable, an element goes behind the ones that are not later.
insertByWithdrawalEpoch(sorted, d) ==
    LET k == Cardinality({i \in 1..Len(sorted) :
                             epochSinceCompare(sorted[i].withdrawalEpoch, d.withdrawalEpoch) <= 0})
    IN SubSeq(sorted, 1, k) \o <<d>> \o SubSeq(sorted, k + 1, Len(sorted))

RECURSIVE sortByWithdrawalEpoch(_)
sortByWithdrawalEpoch(ds) ==
    IF ds = <<>> THEN <<>>
    ELSE insertByWithdrawalEpoch(sortByWithdrawalEpoch(SubSeq(ds, 1, Len(ds) - 1)), ds[Len(ds)])

\* The deposits the loop goes through: the ones whose capacity is within the
\* budget, with their amounts; with minLocking the ones whose amount is within
\* the budget, by withdrawal epoch; with additionalMaxLocking the ones whose
\* withdrawal epoch is not after the latest one.
extendedDeposits(deposits, tipHeader, maxWithdrawalAmount, minLocking, additionalMaxLocking) ==
    LET affordable == SelectSeq(deposits, LAMBDA d : BIgte(maxWithdrawalAmount, d.capacity))
        extended == [i \in 1..Len(affordable) |->
                        [deposit |-> affordable[i],
                         withdrawalAmount |-> withdrawalAmountEstimation(affordable[i], tipHeader.dao),
                         withdrawalEpoch |-> [length |-> 1, index |-> 0, number |-> 0]]]
    IN IF minLocking = None THEN extended
       ELSE LET withdrawalRequestEpoch == epochSinceAdd(tipHeader.epoch, minLocking[1])
                withinBudget == SelectSeq(extended, LAMBDA d : BIgte(maxWithdrawalAmount, d.withdrawalAmount))
                estimated == [i \in 1..Len(withinBudget) |->
                                 [withinBudget[i] EXCEPT
                                     !.withdrawalEpoch =
                                         withdrawalEpochEstimation(withinBudget[i].deposit, withdrawalRequestEpoch)]]
                sorted == sortByWithdrawalEpoch(estimated)
            IN IF additionalMaxLocking = None THEN sorted
               ELSE LET maxWithdrawalEpoch == epochSinceAdd(withdrawalRequestEpoch, additionalMaxLocking[1])
                    IN SelectSeq(sorted, LAMBDA d : epochSinceCompare(d.withdrawalEpoch, maxWithdrawalEpoch) <= 0)

RECURSIVE optimalDepositsBreaking(_, _, _, _, _, _)
RECURSIVE optimalDeposits(_, _, _, _, _, _)
\* A plausible slip: the loop ends at the first deposit that is over budget.
optimalDepositsBreaking(extended, i, currentWithdrawalAmount, optimal, maxWithdrawalAmount, maxWithdrawalCells) ==
    IF i > Len(extended) THEN optimal
    ELSE LET newWithdrawalAmount == BIadd(currentWithdrawalAmount, extended[i].withdrawalAmount)
             pushed == Append(optimal, extended[i].deposit)
         IN IF BIgt(newWithdrawalAmount, maxWithdrawalAmount)
            THEN optimal
            ELSE IF maxWithdrawalCells # None /\ Len(pushed) >= maxWithdrawalCells[1]
            THEN pushed
            ELSE optimalDepositsBreaking(extended, i + 1, newWithdrawalAmount, pushed,
                                         maxWithdrawalAmount, maxWithdrawalCells)

\* The loop over the extended deposits from deposit i on.  Without
\* maxWithdrawalCells the limit is Number.POSITIVE_INFINITY, which no length
\* reaches.
optimalDeposits(extended, i, currentWithdrawalAmount, optimal, maxWithdrawalAmount, maxWithdrawalCells) ==
    IF i > Len(extended) THEN optimal
    ELSE LET newWithdrawalAmount == BIadd(currentWithdrawalAmount, extended[i].withdrawalAmount)
             pushed == Append(optimal, extended[i].deposit)
         IN IF BIgt(newWithdrawalAmount, maxWithdrawalAmount)
            THEN optimalDeposits(extended, i + 1, currentWithdrawalAmount, optimal,
                                 maxWithdrawalAmount, maxWithdrawalCells)
            ELSE IF maxWithdrawalCells # None /\ Len(pushed) >= maxWithdrawalCells[1]
            THEN pushed
            ELSE optimalDeposits(extended, i + 1, newWithdrawalAmount, pushed,
                                 maxWithdrawalAmount, maxWithdrawalCells)

daoRequestWithdrawalWith(t, deposits, lock, tipHeader, maxWithdrawalAmount, maxWithdrawalCells, minLocking, additionalMaxLocking) ==
    LET extended == extendedDeposits(deposits, tipHeader, maxWithdrawalAmount, minLocking, additionalMaxLocking)
        optimal == optimalDeposits(extended, 1, zero, <<>>, maxWithdrawalAmount, maxWithdrawalCells)
    IN IF Len(optimal) > 0 THEN daoRequestWithdrawalFrom(t, optimal, lock) ELSE t

\* The deposits of the account a caller got from daoSifter, of different
\* sizes: 300 CKB and 150 CKB deposited in block 1, 200 CKB in block 2.
sizedDeposit(txHash, ckb, blockNumber) ==
    LET c == chainCell(txHash, plainLock(<<1>>), Some(plainDaoType), DEPOSIT_DATA, Some(blockNumber))
    IN daoSifter(<<[c EXCEPT !.capacity = Capacity(ckb, 0)]>>).deposits[1]

bigDeposit == sizedDeposit("0x30", 300, 1)

smallDeposit == sizedDeposit("0x31", 150, 1)

middleDeposit == sizedDeposit("0x32", 200, 2)

SizedDeposits == {bigDeposit, smallDeposit, middleDeposit}

\* The lists of at most n different deposits.
DepositLists(n) == {ds \in SeqsUpTo(SizedDeposits, n) : \A i, j \in 1..Len(ds) : ds[i] = ds[j] => i = j}

\* Budgets: nothing, less than the smallest deposit, and up to all deposits
\* with their interest.
Budgets == {Capacity(0, 0), Capacity(100, 0), Capacity(200, 0), Capacity(400, 0), Capacity(1000, 0)}

\* Locking periods: none, a quarter of an epoch, an epoch and a half.
Lockings == {None, Some([length |-> 4, index |-> 1, number |-> 0]), Some([length |-> 2, index |-> 3, number |-> 0])}

\* ------------------------------------------------------------------ the fee
\* A plausible slip: the fee is rounded down.
calculateFeeRoundedDown(size, feeRate) ==
    LET ratio == 1000
        base == size * feeRate
    IN base \div ratio

\* A plausible slip: one is added also to an exact quotient.
calculateFeeOneMore(size, feeRate) ==
    LET ratio == 1000
        base == size * feeRate
    IN base \div ratio + 1

calculateFee(size, feeRate) ==
    LET ratio == 1000
        base == size * feeRate
        fee == base \div ratio
    IN IF fee * ratio < base THEN fee + 1 ELSE fee

\* The sum of the numbers of a list.
RECURSIVE sumOf(_)
sumOf(s) == IF s = <<>> THEN 0 ELSE Head(s) + sumOf(Tail(s))

\* The bytes of the molecule table Script {code_hash, hash_type, args}: the
\* total size and three offsets, 32 bytes, one byte, the length-prefixed args.
scriptSize(script) == 4 + 3 * 4 + 32 + 1 + (4 + Len(script.args))

\* The bytes of the molecule table CellOutput {capacity, lock, type}, where an
\* absent type takes no byte.
cellOutputSize(c) ==
    4 + 3 * 4 + 8 + scriptSize(c.lock) + (IF c.type = None THEN 0 ELSE scriptSize(c.type[1]))

\* TransactionCodec.pack(createTransactionFromSkeleton(tx)).byteLength + 4: the
\* table Transaction {raw, witnesses} with the table RawTransaction {version,
\* cell_deps, header_deps, inputs, outputs, outputs_data}; cell deps (37
\* bytes), header deps (32) and inputs (44) are in vectors of fixed-size
\* items, outputs, their data and the witnesses in vectors with offsets.
txSize(t) ==
    LET outputs == [i \in 1..Len(t.outputs) |-> cellOutputSize(t.outputs[i])]
        outputsData == [i \in 1..Len(t.outputs) |-> 4 + Len(t.outputs[i].data)]
        witnesses == [i \in 1..Len(t.witnesses) |-> 4 + Len(t.witnesses[i])]
        raw == 4 + 6 * 4 + 4
                 + (4 + 37 * Len(t.cellDeps))
                 + (4 + 32 * Len(t.headerDeps))
                 + (4 + 44 * Len(t.inputs))
                 + (4 + 4 * Len(outputs) + sumOf(outputs))
                 + (4 + 4 * Len(outputsData) + sumOf(outputsData))
    IN (4 + 2 * 4 + raw + (4 + 4 * Len(witnesses) + sumOf(witnesses))) + 4

isDaoWithdrawalRequest(c) == isDao(c) /\ c.data # DEPOSIT_DATA

\* What an input adds to the delta: the maximum withdrawable amount of a
\* withdrawal request, between its deposit header (the second header of its
\* type) and its own header (the first), and the capacity of any other cell.
addInput(delta, c) ==
    IF isDaoWithdrawalRequest(c)
    THEN BIadd(delta, calculateMaximumWithdraw(c, c.type[1].headerDeps[2].dao, c.type[1].headerDeps[1].dao))
    ELSE BIadd(delta, c.capacity)

RECURSIVE addInputs(_, _)
addInputs(delta, inputs) ==
    IF inputs = <<>> THEN delta ELSE addInputs(addInput(delta, Head(inputs)), Tail(inputs))

RECURSIVE subCapacities(_, _)
subCapacities(delta, cells) ==
    IF cells = <<>> THEN delta ELSE subCapacities(BIsub(delta, Head(cells).capacity), Tail(cells))

\* A plausible slip: the fee is subtracted also when there is no output.
ckbDeltaFeeWithoutOutputs(t, feeRate) ==
    LET delta == subCapacities(addInputs(zero, t.inputs), t.outputs)
    IN IF feeRate > 0
       THEN BIsub(delta, BIfrom(0, calculateFee(txSize(t), feeRate)))
       ELSE delta

\* ckbDelta of src/unnamed/part_000
ckbDelta(t, feeRate) ==
    LET delta == subCapacities(addInputs(zero, t.inputs), t.outputs)
    IN IF Len(t.outputs) > 0 /\ feeRate > 0
       THEN BIsub(delta, BIfrom(0, calculateFee(txSize(t), feeRate)))
       ELSE delta

\* ckbDelta of src/src/dao.ts: the capacities subtracted are the ones of the
\* inputs, and the difference with the fee is calculated and dropped.
ckbDeltaOfDaoTs(t, feeRate) == subCapacities(addInputs(zero, t.inputs), t.inputs)

errorTooManyOutputs == "A transaction containing Nervos DAO script is currently limited to 64 output cells"

errorIOBalancing == "The transaction doesn't correctly even out input and output capacities"

errorLateWithdrawal ==
    "The transaction includes some deposits whose minimum withdrawal epoch is after the maxLock epoch"

withdrawalEpoch(deposit, withdrawalRequestEpoch) ==
    parseAbsoluteEpochSince(calculateDaoEarliestSince(deposit.type[1].headerDeps[1].epoch, withdrawalRequestEpoch))

\* The error daoPreSendChecks throws, noError when it returns the skeleton.
daoPreSendChecksError(t, feeRate, tipEpoch, minLock, maxLock) ==
    LET cells == t.inputs \o t.outputs
        withdrawalRequestEpoch == epochSinceAdd(tipEpoch, minLock)
        maxWithdrawalEpoch == epochSinceAdd(tipEpoch, maxLock)
    IN IF (\E i \in 1..Len(cells) : isDao(cells[i])) /\ Len(t.outputs) > 64
       THEN errorTooManyOutputs
       ELSE IF ckbDeltaOfDaoTs(t, feeRate) # zero
       THEN errorIOBalancing
       ELSE IF \E i \in 1..Len(t.inputs) :
                  /\ isDaoWithdrawalRequest(t.inputs[i])
                  /\ epochSinceCompare(withdrawalEpoch(t.inputs[i], withdrawalRequestEpoch), maxWithdrawalEpoch) = 1
       THEN errorLateWithdrawal
       ELSE noError

\* The default values of minLock and maxLock of daoPreSendChecks
defaultMinLock == [length |-> 8, index |-> 1, number |-> 0]

defaultMaxLock == [length |-> 1, index |-> 0, number |-> 2]

\* A cell of the account without type as capacitiesSifter returns it, and the
\* outputs a caller builds: one of the same capacity and a smaller one.
siftedCapacity == [capacityCell EXCEPT !.lock = accountLock]

outputOf(ckb) ==
    I8CellFrom([capacity |-> Some(Capacity(ckb, 0)), lock |-> accountLock, type |-> None, data |-> None,
                outPoint |-> None, blockHash |-> None, blockNumber |-> None])

CapacityInputs == {siftedCapacity}

CapacityOutputs == {outputOf(200), outputOf(150)}

\* The fee rates of a caller: none and one shannon per byte.
DeltaFeeRates == {0, 1000}

\* -------------------------------------------------------------------- fund
errorNotEnoughFunds == "Not enough funds to execute the transaction"

\* I8CellFrom({ lock: accountLock }): the change cell before it gets its
\* capacity, with the minimal capacity of a cell with this lock.
changeCell(lock) ==
    I8CellFrom([capacity |-> None, lock |-> lock, type |-> None, data |-> None,
                outPoint |-> None, blockHash |-> None, blockNumber |-> None])

\* The funding sources in the order of the loop: the withdrawal requests, each
\* added by withdrawFrom, then the capacity cells, each added by addCells.
addFunds(t, source) ==
    IF source.kind = "withdrawalRequest"
    THEN daoWithdrawFrom(t, <<source.cell>>)
    ELSE addCells(t, "append", <<source.cell>>, <<>>)

fundingSources(withdrawalRequests, capacities) ==
    [i \in 1..Len(withdrawalRequests) |-> [kind |-> "withdrawalRequest", cell |-> withdrawalRequests[i]]]
        \o [i \in 1..Len(capacities) |-> [kind |-> "capacity", cell |-> capacities[i]]]

\* The loop of fund from source i on: the skeleton it returns, or the error
\* behind the loop.  funded is tx after addFunds and delta its ckbDelta, each
\* computed once per round as the values of a singleton.
RECURSIVE fundFrom(_, _, _, _, _)
fundFrom(t, lock, feeRate, sources, i) ==
    IF i > Len(sources) THEN [tx |-> t, err |-> errorNotEnoughFunds]
    ELSE LET round(funded, delta) ==
                 IF BIgte(delta, changeCell(lock).capacity)
                 THEN [tx |-> addCells(funded, "append", <<>>, <<[changeCell(lock) EXCEPT !.capacity = delta]>>),
                       err |-> noError]
                 ELSE fundFrom(funded, lock, feeRate, sources, i + 1)
         IN CHOOSE result \in UNION {{round(funded, delta) : delta \in {ckbDeltaOfDaoTs(funded, feeRate)}} :
                                        funded \in {addFunds(t, sources[i])}} : TRUE

fund(t, lock, feeRate, withdrawalRequests, capacities) ==
    fundFrom(t, lock, feeRate, fundingSources(withdrawalRequests, capacities), 1)

\* The funding sources of a caller: the two withdrawal requests of 200 CKB
\* and one of 500 CKB for a deposit of block 1, and capacity cells of 200 CKB
\* and 100 CKB.
bigRequest ==
    LET c == chainCell("0x2b", plainLock(<<1>>), Some(plainDaoType), <<1, 0, 0, 0, 0, 0, 0, 0>>, Some(3))
    IN daoSifter(<<[c EXCEPT !.capacity = Capacity(500, 0)]>>).withdrawalRequests[1]

smallCapacity ==
    [chainCell("0x2a", plainLock(<<1>>), None, <<>>, Some(2)) EXCEPT !.lock = accountLock, !.capacity = Capacity(100, 0)]

FundRequests == {siftedRequest, bigRequest}

FundCapacities == {siftedCapacity, smallCapacity}

\* The lists of at most n different cells of a set.
ListsOf(S, n) == {s \in SeqsUpTo(S, n) : \A i, j \in 1..Len(s) : s[i] = s[j] => i = j}

\* ------------------------------------------------- sendAndWaitForTransaction
errorUnexpectedTxState == "Unexpected transaction state"

errorTimeOut == "Transaction timed out"

\* The answers of getStatus
Statuses == {"pending", "proposed", "committed", "unknown", "rejected"}

\* A call that ended: it returned the hash or threw the error.
ended(c, returned, err) == [c EXCEPT !.pc = "done", !.returned = returned, !.err = err]

\* A plausible slip: the loop goes on while i <= secondsTimeout.
loopTestInclusive(c) ==
    IF c.i <= c.secondsTimeout THEN [c EXCEPT !.pc = "getStatus"] ELSE ended(c, None, errorTimeOut)

\* The test of the loop: another poll while i < secondsTimeout, the time-out
\* error behind the loop.
loopTest(c) ==
    IF c.i < c.secondsTimeout THEN [c EXCEPT !.pc = "getStatus"] ELSE ended(c, None, errorTimeOut)

\* A plausible slip: unknown is taken for a status to wait on.
switchUnknownWaits(c, status) ==
    IF status = "committed" THEN ended(c, Some(c.txHash[1]), noError)
    ELSE IF status \in {"pending", "proposed", "unknown"} THEN [c EXCEPT !.pc = "setTimeout"]
    ELSE ended(c, None, errorUnexpectedTxState)

\* The switch on the status that getStatus answered.
switch(c, status) ==
    IF status = "committed" THEN ended(c, Some(c.txHash[1]), noError)
    ELSE IF status \in {"pending", "proposed"} THEN [c EXCEPT !.pc = "setTimeout"]
    ELSE ended(c, None, errorUnexpectedTxState)

\* ------------------------------------------------------- the chain adapter
chain2RpcUrl ==
    [mainnet |-> "https://rpc.ankr.com/nervos_ckb", testnet |-> "https://testnet.ckb.dev",
     devnet |-> "http://127.0.0.1:8114/"]

defaultRpcUrl(chain) == chain2RpcUrl[chain]

\* The parameters rpcUrl and isLightClientRpc take their defaults when the
\* caller leaves them out.
newChainInfo(chain, rpcUrl, isLightClientRpc) ==
    [chain |-> chain,
     rpcUrl |-> IF rpcUrl = None THEN defaultRpcUrl(chain) ELSE rpcUrl[1],
     isLightClientRpc |-> IF isLightClientRpc = None THEN FALSE ELSE isLightClientRpc[1]]

\* _chainInfo after initializeChainAdapter: a new record when the chain or the
\* url is another one, the old record otherwise.
initializeChainInfo(chainInfo, chain, rpcUrl, isLightClientRpc) ==
    IF chain # chainInfo.chain \/ newChainInfo(chain, rpcUrl, isLightClientRpc).rpcUrl # chainInfo.rpcUrl
    THEN newChainInfo(chain, rpcUrl, isLightClientRpc)
    ELSE chainInfo

\* The configuration initializeChainAdapter initializes: the given one, LINA
\* for mainnet, AGGRON4 for testnet, and for devnet the one generated from
\* the genesis block.
initializedConfig(chain, config) ==
    IF config # None THEN config[1]
    ELSE IF chain = "mainnet" THEN "LINA"
    ELSE IF chain = "testnet" THEN "AGGRON4"
    ELSE "genesis"

\* ------------------------------------------- requestWithdrawalWith of dao.ts
requestWithdrawalFrom(t, lock, deposits) ==
    addCells(t, "matched", deposits, [i \in 1..Len(deposits) |-> withdrawalRequestOf(deposits[i])])

\* The deposits the loop of requestWithdrawalWith goes through: the ones whose
\* capacity is within the budget and whose withdrawal epoch is not after
\* maxWithdrawalEpoch, by withdrawal epoch.
sortedDeposits(deposits, maxWithdrawalAmount, tipEpoch, minLock, maxLock) ==
    LET withdrawalRequestEpoch == epochSinceAdd(tipEpoch, minLock)
        maxWithdrawalEpoch == epochSinceAdd(tipEpoch, maxLock)
        affordable == SelectSeq(deposits, LAMBDA d : BIgte(maxWithdrawalAmount, d.capacity))
        frozen == [i \in 1..Len(affordable) |->
                      [cell |-> affordable[i],
                       withdrawalEpoch |-> withdrawalEpoch(affordable[i], withdrawalRequestEpoch)]]
        early == SelectSeq(frozen, LAMBDA d : epochSinceCompare(d.withdrawalEpoch, maxWithdrawalEpoch) <= 0)
        sorted == sortByWithdrawalEpoch(early)
    IN [i \in 1..Len(sorted) |-> sorted[i].cell]

\* The loop over the sorted deposits from deposit i on: a deposit is pushed
\* when maxWithdrawalAmount.lte(newWithdrawalAmount), the loop breaks at the
\* first one that is not.
RECURSIVE optimalDepositsWith(_, _, _, _, _)
optimalDepositsWith(deposits, i, withdrawalAmount, optimal, maxWithdrawalAmount) ==
    IF i > Len(deposits) THEN optimal
    ELSE LET newWithdrawalAmount == BIadd(withdrawalAmount, deposits[i].capacity)
         IN IF BIgte(newWithdrawalAmount, maxWithdrawalAmount)
            THEN optimalDepositsWith(deposits, i + 1, newWithdrawalAmount, Append(optimal, deposits[i]),
                                     maxWithdrawalAmount)
            ELSE optimal

requestWithdrawalWith(t, lock, deposits, maxWithdrawalAmount, tipEpoch, minLock, maxLock) ==
    LET sorted == sortedDeposits(deposits, maxWithdrawalAmount, tipEpoch, minLock, maxLock)
        optimal == optimalDepositsWith(sorted, 1, zero, <<>>, maxWithdrawalAmount)
    IN IF Len(optimal) > 0 THEN requestWithdrawalFrom(t, lock, optimal) ELSE t

\* The locking periods requestWithdrawalWith takes when the caller gives none.
requestMinLock == [length |-> 4, index |-> 1, number |-> 0]

requestMaxLock == [length |-> 1, index |-> 0, number |-> 1]

\* -------------------------------------------------------------- the machine
TransactionSkeleton ==
    [inputs |-> <<>>, outputs |-> <<>>, cellDeps |-> <<>>, headerDeps |-> <<>>,
     inputSinces |-> <<>>, witnesses |-> <<>>, fixedEntries |-> <<>>, signingEntries |-> <<>>]

\* The last call: its operation, mode and argument sizes, the error it threw
\* (noError when it returned), and the arguments of a call that returned.
Call(op, mode, nInputs, nOutputs, inputs, outputs, deps, err) ==
    [op |-> op, mode |-> mode, nInputs |-> nInputs, nOutputs |-> nOutputs,
     inputs |-> inputs, outputs |-> outputs, deps |-> deps, err |-> err]

Init ==
    /\ tx = TransactionSkeleton
    /\ call = Call("new", "", 0, 0, <<>>, <<>>, <<>>, noError)

AddCellsOf(inputCells, outputCells, maxNew, maxCells) ==
    \E mode \in {"matched", "append"}, inputs \in SeqsUpTo(inputCells, maxNew), outputs \in SeqsUpTo(outputCells, maxNew) :
        /\ Len(tx.inputs) + Len(inputs) <= maxCells
        /\ Len(tx.outputs) + Len(outputs) <= maxCells
        /\ LET err == addCellsError(tx, mode, inputs, outputs)
           IN IF err = noError
              THEN /\ tx' = addCells(tx, mode, inputs, outputs)
                   /\ call' = Call("addCells", mode, Len(inputs), Len(outputs), inputs, outputs, <<>>, noError)
              ELSE /\ tx' = tx
                   /\ call' = Call("addCells", mode, Len(inputs), Len(outputs), <<>>, <<>>, <<>>, err)

AddCells == AddCellsOf(Cells, Cells, MaxNew, MaxCells)

AddDepCells == AddCellsOf(DepCells, DepCells, MaxDepCells, MaxDepCells)

AddSinceCells == AddCellsOf(SinceCells, {cellA}, MaxSinceCells, MaxSinceCells)

AddCellDeps ==
    \E deps \in SeqsUpTo(CellDeps, MaxDeps) :
        /\ tx' = addCellDeps(tx, deps)
        /\ call' = Call("addCellDeps", "", 0, 0, <<>>, <<>>, deps, noError)

AddHeaderDeps ==
    \E headers \in SeqsUpTo(Hashes, MaxDeps) :
        /\ tx' = addHeaderDeps(tx, headers)
        /\ call' = Call("addHeaderDeps", "", 0, 0, <<>>, <<>>, headers, noError)

\* A caller that fixes the inputs or the outputs up to one of the existing entries.
AddFixedEntries ==
    \E field \in {"inputs", "outputs"} :
        \E index \in 0..(Len(tx[field]) - 1) :
            /\ tx' = addFixedEntries(tx, <<[field |-> field, index |-> index]>>)
            /\ call' = Call("addFixedEntries", "", 0, 0, <<>>, <<>>, <<>>, noError)

\* secp256k1Blake160.prepareSigningEntries as the signer calls it: one signing
\* entry for the lock group of the first input.
PrepareSigningEntries ==
    /\ Len(tx.inputs) > 0
    /\ Len(tx.signingEntries) < MaxSigning
    /\ tx' = [tx EXCEPT !.signingEntries = Append(@, [type |-> "witness_args_lock", index |-> 0])]
    /\ call' = Call("prepareSigningEntries", "", 0, 0, <<>>, <<>>, <<>>, noError)

Next ==
    \/ AddCells
    \/ AddFixedEntries
    \/ PrepareSigningEntries

Spec == Init /\ [][Next]_vars

NextDeps ==
    \/ AddDepCells
    \/ AddCellDeps
    \/ AddHeaderDeps

SpecDeps == Init /\ [][NextDeps]_vars

NextSince == AddSinceCells

SpecSince == Init /\ [][NextSince]_vars

\* The witnesses another tool may have left in a skeleton: valid WitnessArgs
\* encodings, each field absent, empty or one byte long.
WitnessEncodings ==
    {WitnessArgsPack([lock |-> l, inputType |-> i, outputType |-> o]) :
        l \in {None, Some(<<>>), Some(<<1>>)},
        i \in {None, Some(<<>>), Some(<<7>>)},
        o \in {None, Some(<<8>>)}}

\* A skeleton without cells that already carries witnesses.
InitWitnesses ==
    /\ tx \in {[TransactionSkeleton EXCEPT !.witnesses = w] : w \in SeqsUpTo(WitnessEncodings, MaxWitnesses)}
    /\ call = Call("new", "", 0, 0, <<>>, <<>>, <<>>, noError)

\* addCells with no new cells: the witnesses are unpacked and packed again.
AddNoCells ==
    \E mode \in {"matched", "append"} :
        /\ addCellsError(tx, mode, <<>>, <<>>) = noError
        /\ tx' = addCells(tx, mode, <<>>, <<>>)
        /\ call' = Call("addCells", mode, 0, 0, <<>>, <<>>, <<>>, noError)

NextWitnesses == AddNoCells

SpecWitnesses == InitWitnesses /\ [][NextWitnesses]_vars

\* The EpochSinceValue arguments of a caller: any three non-negative integers,
\* a zero length and an index past the length included.
Epochs ==
    [length : 0..MaxEpochLength, index : 0..MaxEpochLength, number : 0..MaxEpochNumber]

\* The epochs a header can carry.
ValidEpochs == {e \in Epochs : e.length > 0 /\ e.index < e.length}

\* The arguments of one call: two epochs, or three valid epochs to be added.
InitEpoch ==
    /\ tx = TransactionSkeleton
    /\ call \in [op : {"arguments"}, args : (Epochs \X Epochs) \cup (ValidEpochs \X ValidEpochs \X ValidEpochs)]

\* A call of epochSinceCompare; the function has no throw statement.
EpochSinceCompare ==
    /\ call.op = "arguments" /\ Len(call.args) = 2
    /\ call' = [op |-> "epochSinceCompare", e0 |-> call.args[1], e1 |-> call.args[2],
                result |-> epochSinceCompare(call.args[1], call.args[2]), err |-> noError]
    /\ UNCHANGED tx

\* A call of epochSinceAdd; the function has no throw statement.
EpochSinceAdd ==
    /\ call.op = "arguments" /\ Len(call.args) = 2
    /\ call' = [op |-> "epochSinceAdd", e |-> call.args[1], delta |-> call.args[2],
                result |-> epochSinceAdd(call.args[1], call.args[2]), err |-> noError]
    /\ UNCHANGED tx

\* Three epochs added in the two possible groupings.
EpochSinceAddThree ==
    /\ call.op = "arguments" /\ Len(call.args) = 3
    /\ LET a == call.args[1]
           b == call.args[2]
           c == call.args[3]
       IN call' = [op |-> "epochSinceAddThree", a |-> a, b |-> b, c |-> c,
                   left |-> epochSinceAdd(epochSinceAdd(a, b), c),
                   right |-> epochSinceAdd(a, epochSinceAdd(b, c)), err |-> noError]
    /\ UNCHANGED tx

NextEpoch ==
    \/ EpochSinceCompare
    \/ EpochSinceAdd
    \/ EpochSinceAddThree

SpecEpoch == InitEpoch /\ [][NextEpoch]_vars

\* The scripts a caller may compare: two code hashes, hash types and args, with
\* or without the extra fields of an I8Script.
Scripts ==
    {[I8ScriptFrom(codeHash, args, cellDeps, <<>>, witness, since) EXCEPT !.hashType = hashType] :
        codeHash \in {"secp", "dao"}, hashType \in {"data", "type"}, args \in {<<>>, <<1>>},
        cellDeps \in {<<>>, <<depA>>}, witness \in {None, Some(<<7>>)}, since \in {None, Some(epochSince(1, 0, 1))}}

\* Script | undefined
OptionalScripts == {None} \cup {Some(script) : script \in Scripts}

\* The arguments of one call of scriptEq.
InitScript ==
    /\ tx = TransactionSkeleton
    /\ call \in [op : {"arguments"}, s0 : OptionalScripts, s1 : OptionalScripts]

\* A call of scriptEq: it throws or it returns a boolean.
ScriptEq ==
    /\ call.op = "arguments"
    /\ LET err == scriptEqError(call.s0, call.s1)
       IN call' = [op |-> "scriptEq", s0 |-> call.s0, s1 |-> call.s1,
                   result |-> IF err = noError THEN Some(scriptEq(call.s0, call.s1)) ELSE None,
                   err |-> err]
    /\ UNCHANGED tx

NextScript == ScriptEq

SpecScript == InitScript /\ [][NextScript]_vars

\* The values a caller may pass to I8CellFrom: the capacity unset or one of
\* four amounts (the default "0x40" among them), two locks, the type unset or
\* one of two types, the data unset or one of two byte strings.
CellValues ==
    [capacity : {None, Some(Capacity(0, 0)), Some(defaultCapacity), Some(Capacity(61, 0)), Some(Capacity(200, 0))},
     lock : {I8ScriptFrom("secp", <<>>, <<>>, <<>>, None, None), I8ScriptFrom("secp", <<1, 2>>, <<>>, <<>>, None, None)},
     type : {None, Some(I8ScriptFrom("dao", <<>>, <<>>, <<>>, None, None)), Some(I8ScriptFrom("sudt", <<3>>, <<>>, <<>>, None, None))},
     data : {None, Some(<<>>), Some(<<0, 0, 0, 0, 0, 0, 0, 0>>)},
     outPoint : {None},
     blockHash : {None},
     blockNumber : {None}]

\* The values of one call of I8CellFrom.
InitCell ==
    /\ tx = TransactionSkeleton
    /\ call \in [op : {"arguments"}, values : CellValues]

\* A call of I8CellFrom.
CallI8CellFrom ==
    /\ call.op = "arguments"
    /\ call' = [op |-> "I8CellFrom", values |-> call.values, result |-> I8CellFrom(call.values), err |-> noError]
    /\ UNCHANGED tx

NextCell == CallI8CellFrom

SpecCell == InitCell /\ [][NextCell]_vars

\* The cells of one call of daoSifter.
InitSift ==
    /\ tx = TransactionSkeleton
    /\ call \in [op : {"arguments"}, inputs : SeqsUpTo(SiftCells, MaxSift)]

\* A call of daoSifter: it throws or it returns the three lists.
DaoSifter ==
    /\ call.op = "arguments"
    /\ LET sifted == daoSifter(call.inputs)
       IN call' = [op |-> "daoSifter", inputs |-> call.inputs,
                   result |-> IF sifted.err = noError
                              THEN Some([deposits |-> sifted.deposits,
                                         withdrawalRequests |-> sifted.withdrawalRequests,
                                         notDaos |-> sifted.notDaos])
                              ELSE None,
                   err |-> sifted.err]
    /\ UNCHANGED tx

NextSift == DaoSifter

SpecSift == InitSift /\ [][NextSift]_vars

\* A call of daoRequestWithdrawalFrom: it throws and leaves the skeleton of
\* the caller as it was, or it returns the new skeleton.
DaoRequestWithdrawalFrom ==
    \E deposits \in SeqsUpTo(SiftedDeposits, MaxDaoCells), lock \in AccountLocks :
        /\ Len(tx.inputs) + Len(deposits) <= MaxDaoCells
        /\ LET err == daoRequestWithdrawalFromError(tx, deposits, lock)
           IN /\ tx' = IF err = noError THEN daoRequestWithdrawalFrom(tx, deposits, lock) ELSE tx
              /\ call' = [op |-> "daoRequestWithdrawalFrom", deposits |-> deposits, lock |-> lock, err |-> err]

\* A call of daoWithdrawFrom.
DaoWithdrawFrom ==
    \E withdrawalRequests \in SeqsUpTo(SiftedRequests, MaxDaoCells) :
        /\ Len(tx.inputs) + Len(withdrawalRequests) <= MaxDaoCells
        /\ tx' = daoWithdrawFrom(tx, withdrawalRequests)
        /\ call' = [op |-> "daoWithdrawFrom", withdrawalRequests |-> withdrawalRequests, err |-> noError]

\* A call of addCells that appends cells of the account without type.
AddCapacities ==
    \E inputs \in SeqsUpTo(CapacityInputs, MaxDaoCells), outputs \in SeqsUpTo(CapacityOutputs, MaxDaoCells) :
        /\ Len(inputs) + Len(outputs) > 0
        /\ Len(tx.inputs) + Len(inputs) <= MaxDaoCells
        /\ Len(tx.outputs) + Len(outputs) <= MaxDaoCells
        /\ LET err == addCellsError(tx, "append", inputs, outputs)
           IN /\ tx' = IF err = noError THEN addCells(tx, "append", inputs, outputs) ELSE tx
              /\ call' = [op |-> "addCells", err |-> err]

\* A call of ckbDelta of src/unnamed/part_000 on the skeleton.
CkbDelta ==
    \E feeRate \in DeltaFeeRates :
        /\ call' = [op |-> "ckbDelta", feeRate |-> feeRate, result |-> ckbDelta(tx, feeRate)]
        /\ UNCHANGED tx

\* A call of daoPreSendChecks of src/src/dao.ts on the skeleton, with the
\* epoch of block 3 as the tip.
DaoPreSendChecks ==
    \E feeRate \in DeltaFeeRates :
        /\ call' = [op |-> "daoPreSendChecks", feeRate |-> feeRate,
                    err |-> daoPreSendChecksError(tx, feeRate, chainHeaders[3].epoch, defaultMinLock, defaultMaxLock)]
        /\ UNCHANGED tx

NextDao ==
    \/ DaoRequestWithdrawalFrom
    \/ DaoWithdrawFrom
    \/ AddCapacities
    \/ CkbDelta
    \/ DaoPreSendChecks

SpecDao == Init /\ [][NextDao]_vars

\* ---- daoRequestWithdrawalWith on its arguments
InitWith ==
    /\ tx = TransactionSkeleton
    /\ call \in [op : {"arguments"},
                  deposits : DepositLists(MaxWithDeposits),
                  maxWithdrawalAmount : Budgets,
                  maxWithdrawalCells : {None} \cup {Some(n) : n \in 0..MaxWithdrawalCells},
                  minLocking : Lockings,
                  additionalMaxLocking : Lockings]

DaoRequestWithdrawalWith ==
    /\ call.op = "arguments"
    /\ tx' = daoRequestWithdrawalWith(tx, call.deposits, accountLock, chainHeaders[3], call.maxWithdrawalAmount,
                                      call.maxWithdrawalCells, call.minLocking, call.additionalMaxLocking)
    /\ call' = [call EXCEPT !.op = "daoRequestWithdrawalWith"]

NextWith ==
    \/ DaoRequestWithdrawalWith

SpecWith == InitWith /\ [][NextWith]_vars

\* ---- calculateFee on its arguments
Sizes == 0..MaxSize

FeeRates == {0, 1, 7, 250, 999, 1000, 1001}

InitFee ==
    /\ tx = TransactionSkeleton
    /\ call \in [op : {"arguments"}, size : Sizes, feeRate : FeeRates]

CalculateFee ==
    /\ call.op = "arguments"
    /\ call' = [op |-> "calculateFee", size |-> call.size, feeRate |-> call.feeRate,
                result |-> calculateFee(call.size, call.feeRate)]
    /\ UNCHANGED tx

NextFee ==
    \/ CalculateFee

SpecFee == InitFee /\ [][NextFee]_vars

\* ---- sendAndWaitForTransaction: the call is at its first line, send and
\* getStatus were not called yet
InitSend ==
    /\ tx = TransactionSkeleton
    /\ call \in [op : {"sendAndWaitForTransaction"}, pc : {"send"}, secondsTimeout : 0..MaxSecondsTimeout,
                  i : {0}, sent : {0}, txHash : {None}, answers : {<<>>}, returned : {None}, err : {noError}]

\* send answers the hash of the transaction; the loop starts with i = 0.
Send ==
    /\ call.pc = "send"
    /\ call' = loopTest([call EXCEPT !.sent = @ + 1, !.txHash = Some("0xtx"), !.i = 0])
    /\ UNCHANGED tx

\* getStatus answers a status, which the switch looks at.
GetStatus ==
    /\ call.pc = "getStatus"
    /\ \E status \in Statuses : call' = switch([call EXCEPT !.answers = Append(@, status)], status)
    /\ UNCHANGED tx

\* The timer of one second fires; the loop goes on with i + 1.
SetTimeout ==
    /\ call.pc = "setTimeout"
    /\ call' = loopTest([call EXCEPT !.i = @ + 1])
    /\ UNCHANGED tx

NextSend ==
    \/ Send
    \/ GetStatus
    \/ SetTimeout

SpecSend == InitSend /\ [][NextSend]_vars

\* The event loop runs the rest of the call once send or getStatus has
\* answered and once the timer has fired.
SpecSendFair == SpecSend /\ WF_vars(Send) /\ WF_vars(GetStatus) /\ WF_vars(SetTimeout)

\* ---- fund on a skeleton with outputs
\* A call of addCells that appends the outputs the caller wants to fund.
AddOutputs ==
    \E outputs \in SeqsUpTo(CapacityOutputs, MaxFundCells) :
        /\ Len(tx.inputs) = 0
        /\ Len(outputs) > 0
        /\ Len(tx.outputs) + Len(outputs) <= MaxFundCells
        /\ tx' = addCells(tx, "append", <<>>, outputs)
        /\ call' = [op |-> "addCells", err |-> noError]

\* A call of fund of src/src/dao.ts.
Fund ==
    \E withdrawalRequests \in ListsOf(FundRequests, MaxFundCells), capacities \in ListsOf(FundCapacities, MaxFundCells),
       feeRate \in DeltaFeeRates :
        /\ Len(tx.inputs) = 0
        /\ LET result == fund(tx, accountLock, feeRate, withdrawalRequests, capacities)
           IN /\ tx' = IF result.err = noError THEN result.tx ELSE tx
              /\ call' = [op |-> "fund", feeRate |-> feeRate, withdrawalRequests |-> withdrawalRequests,
                          capacities |-> capacities, err |-> result.err]

NextFund ==
    \/ AddOutputs
    \/ Fund

SpecFund == Init /\ [][NextFund]_vars

\* ---- withdrawals with dependencies added before and after them
\* A call of addCellDeps with one cell dep, new or not.
AddCellDep ==
    \E dep \in CellDeps :
        /\ tx' = addCellDeps(tx, <<dep>>)
        /\ call' = [op |-> "addCellDeps", err |-> noError]

\* A call of addHeaderDeps with one hash, new or not.
AddHeaderDep ==
    \E hash \in Hashes \cup {chainHeaders[2].hash} :
        /\ tx' = addHeaderDeps(tx, <<hash>>)
        /\ call' = [op |-> "addHeaderDeps", err |-> noError]

\* A call of daoWithdrawFrom with one request.
WithdrawOne ==
    \E r \in SiftedRequests :
        /\ Len(tx.inputs) < MaxDaoCells
        /\ tx' = daoWithdrawFrom(tx, <<r>>)
        /\ call' = [op |-> "daoWithdrawFrom", err |-> noError]

NextStable ==
    \/ WithdrawOne
    \/ AddCellDep
    \/ AddHeaderDep

SpecStable == Init /\ [][NextStable]_vars

\* ---- the chain adapter: the module is loaded with the configuration of
\* mainnet or of testnet, and _chainInfo is the one of that chain
Chains == {"mainnet", "testnet", "devnet"}

RpcUrls == {None, Some("http://node:8114/"), Some("https://testnet.ckb.dev")}

InitChain ==
    /\ tx = TransactionSkeleton
    /\ \E chain \in {"mainnet", "testnet"} :
          call = [op |-> "module", chainInfo |-> newChainInfo(chain, None, None),
                  config |-> IF chain = "mainnet" THEN "LINA" ELSE "AGGRON4",
                  last |-> None, result |-> None, calls |-> 0]

\* A call of initializeChainAdapter.  For devnet without configuration the
\* genesis block is fetched, which may fail and leave the configuration.
InitializeChainAdapter ==
    \E chain \in Chains, config \in {None, Some("custom")}, rpcUrl \in RpcUrls,
       isLightClientRpc \in {None, Some(FALSE), Some(TRUE)}, fetched \in BOOLEAN :
        /\ call.calls < MaxChainCalls
        /\ fetched \/ (config = None /\ chain = "devnet")
        /\ call' = [op |-> "initializeChainAdapter",
                    chainInfo |-> initializeChainInfo(call.chainInfo, chain, rpcUrl, isLightClientRpc),
                    config |-> IF fetched THEN initializedConfig(chain, config) ELSE call.config,
                    last |-> Some([chain |-> chain, rpcUrl |-> rpcUrl, isLightClientRpc |-> isLightClientRpc]),
                    result |-> None, calls |-> call.calls + 1]
        /\ UNCHANGED tx

\* A call of getChainInfo: a copy of _chainInfo.
GetChainInfo ==
    /\ call.op # "getChainInfo"
    /\ call' = [call EXCEPT !.op = "getChainInfo", !.result = Some(call.chainInfo)]
    /\ UNCHANGED tx

NextChain ==
    \/ InitializeChainAdapter
    \/ GetChainInfo

SpecChain == InitChain /\ [][NextChain]_vars

\* ---- requestWithdrawalWith of dao.ts on its arguments: the tip is block 3
\* or a block 178 epochs and a half later, the budgets are the capacities of
\* the deposits and amounts around them, maxLock is the default one or one
\* of 180 epochs given as a fraction.
RequestBudgets == {Capacity(0, 0), Capacity(150, 0), Capacity(200, 0), Capacity(300, 0), Capacity(400, 0)}

TipEpochs == {chainHeaders[3].epoch, [length |-> 4, index |-> 2, number |-> 190]}

MaxLocks == {requestMaxLock, [length |-> 1, index |-> 180, number |-> 0]}

InitRequestWith ==
    /\ tx = TransactionSkeleton
    /\ call \in [op : {"arguments"},
                  deposits : DepositLists(MaxWithDeposits),
                  maxWithdrawalAmount : RequestBudgets,
                  tipEpoch : TipEpochs,
                  maxLock : MaxLocks]

RequestWithdrawalWith ==
    /\ call.op = "arguments"
    /\ tx' = requestWithdrawalWith(tx, accountLock, call.deposits, call.maxWithdrawalAmount, call.tipEpoch,
                                   requestMinLock, call.maxLock)
    /\ call' = [call EXCEPT !.op = "requestWithdrawalWith"]

NextRequestWith ==
    \/ RequestWithdrawalWith

SpecRequestWith == InitRequestWith /\ [][NextRequestWith]_vars

\* ================================================================== claims
\* The last call was addCells in the given mode and it returned.
Returned(c, mode) == c.op = "addCells" /\ c.mode = mode /\ c.err = noError

\* The last call was addCells in matched mode (returned or thrown).
Matched(c) == c.op = "addCells" /\ c.mode = "matched"

\* C1: a matched addCells that returns, with n new inputs and n new outputs on
\* a skeleton whose inputs/outputs fixed boundary is b, puts the new inputs at
\* input indices b+1..b+n and the new outputs at output indices b+1..b+n in the
\* order given, and leaves both fixed boundaries at b+n.
C1_MatchedSplicesAfterBoundary ==
    [][Returned(call', "matched") =>
        LET b == parseFixedEntries(tx).inputs
            n == call'.nInputs
        IN /\ parseFixedEntries(tx).outputs = b
           /\ call'.nOutputs = n
           /\ \A k \in 1..n :
                /\ (b + 1 + k) \in DOMAIN tx'.inputs
                /\ tx'.inputs[b + 1 + k] = call'.inputs[k]
                /\ (b + 1 + k) \in DOMAIN tx'.outputs
                /\ tx'.outputs[b + 1 + k] = call'.outputs[k]
           /\ parseFixedEntries(tx').inputs = b + n
           /\ parseFixedEntries(tx').outputs = b + n]_vars

\* C1 witness: a matched call has inserted a pair at index 0 (b = -1), in front
\* of an input that an earlier append left uncommitted; the boundary is now 0.
C1_Witness ==
    /\ Returned(call, "matched")
    /\ call.nInputs = 1
    /\ parseFixedEntries(tx).inputs = 0
    /\ Len(tx.inputs) = 2

\* C2: no call reorders or shifts a committed cell: every input/output at an
\* index less than or equal to the fixed boundary is the same cell at the same
\* index after the step, and the boundaries never decrease (so a boundary
\* recorded at any earlier point keeps protecting its cells).
C2_CommittedCellsStay ==
    [][LET f == parseFixedEntries(tx)
           g == parseFixedEntries(tx')
       IN /\ \A i \in 1..Min(f.inputs + 1, Len(tx.inputs)) :
                i \in DOMAIN tx'.inputs /\ tx'.inputs[i] = tx.inputs[i]
          /\ \A i \in 1..Min(f.outputs + 1, Len(tx.outputs)) :
                i \in DOMAIN tx'.outputs /\ tx'.outputs[i] = tx.outputs[i]
          /\ g.inputs >= f.inputs
          /\ g.outputs >= f.outputs]_vars

\* C2 witness: an append has added an input behind a committed input.
C2_Witness ==
    /\ Returned(call, "append")
    /\ call.nInputs = 1
    /\ parseFixedEntries(tx).inputs = 0
    /\ Len(tx.inputs) = 2

\* C3: an append addCells that returns puts the new inputs after the last
\* existing input and the new outputs after the last existing output, keeps
\* every existing cell at its index and leaves both fixed boundaries unchanged.
C3_AppendAddsAtEnd ==
    [][Returned(call', "append") =>
        /\ tx'.inputs = tx.inputs \o call'.inputs
        /\ tx'.outputs = tx.outputs \o call'.outputs
        /\ parseFixedEntries(tx').inputs = parseFixedEntries(tx).inputs
        /\ parseFixedEntries(tx').outputs = parseFixedEntries(tx).outputs]_vars

\* C3 witness: an append has added an input and an output to a skeleton that
\* held an uncommitted input and a committed output.
C3_Witness ==
    /\ Returned(call, "append")
    /\ call.nInputs = 1
    /\ call.nOutputs = 1
    /\ Len(tx.inputs) = 2
    /\ Len(tx.outputs) = 2
    /\ parseFixedEntries(tx).inputs = -1
    /\ parseFixedEntries(tx).outputs = 0

\* C4: a matched addCells with different numbers of new inputs and new
\* outputs throws errorDifferentIOLength and the skeleton is unchanged.
C4_LengthMismatchThrows ==
    [][(Matched(call') /\ call'.nInputs # call'.nOutputs) =>
        (call'.err = errorDifferentIOLength /\ tx' = tx)]_vars

\* C4 witness: the length error was thrown on a skeleton that holds cells, whose
\* boundaries differ and that has a signing entry (the other two checks would
\* fail as well).
C4_Witness ==
    /\ Matched(call)
    /\ call.err = errorDifferentIOLength
    /\ parseFixedEntries(tx).inputs # parseFixedEntries(tx).outputs
    /\ Len(tx.signingEntries) > 0

\* C5 as stated: a matched addCells on a skeleton whose inputs and outputs
\* fixed boundaries differ throws errorDifferentIOFixedEntries and inserts
\* nothing.
C5_Original ==
    [][(Matched(call') /\ parseFixedEntries(tx).inputs # parseFixedEntries(tx).outputs) =>
        (call'.err = errorDifferentIOFixedEntries /\ tx' = tx)]_vars

\* C5 amended: a matched addCells with as many new inputs as new outputs, on a
\* skeleton whose inputs and outputs fixed boundaries differ, throws
\* errorDifferentIOFixedEntries and inserts nothing (with different numbers the
\* length check comes first).
C5_FixedEntriesMismatchThrows ==
    [][(/\ Matched(call')
        /\ call'.nInputs = call'.nOutputs
        /\ parseFixedEntries(tx).inputs # parseFixedEntries(tx).outputs) =>
        (call'.err = errorDifferentIOFixedEntries /\ tx' = tx)]_vars

\* C5 witness: the fixed entries error was thrown for a pair of new cells.
C5_Witness ==
    /\ Matched(call)
    /\ call.err = errorDifferentIOFixedEntries
    /\ call.nInputs = 1
    /\ call.nOutputs = 1
    /\ parseFixedEntries(tx).inputs # parseFixedEntries(tx).outputs

\* C6 as stated: a matched addCells on a skeleton with at least one signing
\* entry throws errorNotEmptySigningEntries, and an append addCells on such a
\* skeleton returns.
C6_Original ==
    [][(call'.op = "addCells" /\ Len(tx.signingEntries) > 0) =>
        IF call'.mode = "matched"
        THEN call'.err = errorNotEmptySigningEntries
        ELSE call'.err = noError]_vars

\* C6 amended: a matched addCells with as many new inputs as new outputs, on a
\* skeleton whose inputs and outputs fixed boundaries are equal and that has at
\* least one signing entry, throws errorNotEmptySigningEntries and leaves the
\* skeleton unchanged; an append addCells on a skeleton with signing entries
\* returns.
C6_SigningEntriesThrow ==
    [][(call'.op = "addCells" /\ Len(tx.signingEntries) > 0) =>
        IF call'.mode = "matched"
        THEN (/\ call'.nInputs = call'.nOutputs
              /\ parseFixedEntries(tx).inputs = parseFixedEntries(tx).outputs) =>
                 (call'.err = errorNotEmptySigningEntries /\ tx' = tx)
        ELSE call'.err = noError]_vars

\* C6 witness: the signing entries error was thrown for a pair of new cells.
C6_Witness ==
    /\ Matched(call)
    /\ call.err = errorNotEmptySigningEntries
    /\ call.nInputs = 1
    /\ Len(tx.signingEntries) > 0

\* The identity of a cell dep: transaction hash, index and dep type.
SameCellDep(a, b) ==
    /\ a.outPoint.txHash = b.outPoint.txHash
    /\ a.outPoint.index = b.outPoint.index
    /\ a.depType = b.depType

\* The position of the first occurrence of x in list (0 when there is none).
FirstAt(list, x) ==
    IF \E i \in DOMAIN list : list[i] = x
    THEN CHOOSE i \in DOMAIN list : list[i] = x /\ \A j \in 1..(i - 1) : list[j] # x
    ELSE 0

\* result is old followed by the entries of new that are not in old, each once,
\* in the order of their first occurrence in new.
FirstSeenMerge(old, new, result) ==
    /\ Len(result) >= Len(old)
    /\ SubSeq(result, 1, Len(old)) = old
    /\ Range(result) = Range(old) \cup Range(new)
    /\ \A i, j \in DOMAIN result : i # j => result[i] # result[j]
    /\ \A i, j \in (Len(old) + 1)..Len(result) :
          i < j => FirstAt(new, result[i]) < FirstAt(new, result[j])

\* C7: addCellDeps and addHeaderDeps return the existing list followed by the
\* new dependencies without duplicates, each at the position of its first
\* occurrence; addCells merges the dependencies of its cells the same way (the
\* existing list stays a prefix, no duplicates); two cell deps are the same
\* exactly when txHash, index and depType agree; [A,B,A,C] gives [A,B,C].
C7_DepsMergeFirstSeen ==
    [][/\ call'.op = "addCellDeps" => FirstSeenMerge(tx.cellDeps, call'.deps, tx'.cellDeps)
       /\ call'.op = "addHeaderDeps" => FirstSeenMerge(tx.headerDeps, call'.deps, tx'.headerDeps)
       /\ Returned(call', "matched") \/ Returned(call', "append") =>
             /\ SubSeq(tx'.cellDeps, 1, Len(tx.cellDeps)) = tx.cellDeps
             /\ SubSeq(tx'.headerDeps, 1, Len(tx.headerDeps)) = tx.headerDeps
       /\ \A i, j \in DOMAIN tx'.cellDeps : i # j => ~SameCellDep(tx'.cellDeps[i], tx'.cellDeps[j])
       /\ \A i, j \in DOMAIN tx'.headerDeps : i # j => tx'.headerDeps[i] # tx'.headerDeps[j]
       /\ tx = TransactionSkeleton =>
             /\ addCellDeps(tx, <<depA, depB, depA, depC>>).cellDeps = <<depA, depB, depC>>
             /\ addHeaderDeps(tx, <<"0xh1", "0xh2", "0xh1", "0xh3">>).headerDeps = <<"0xh1", "0xh2", "0xh3">>]_vars

\* C7 witness: addCellDeps has merged [A, C] into [A, B].
C7_Witness ==
    /\ call.op = "addCellDeps"
    /\ call.deps = <<depA, depC>>
    /\ tx.cellDeps = <<depA, depB, depC>>

\* The cell deps and the header hashes a script carries.
CellDepsOf(script) == Range(script.cellDeps)

HashesOf(script) == {script.headerDeps[i].hash : i \in DOMAIN script.headerDeps}

\* The skeleton holds every dependency the script carries.
Holds(t, script) ==
    /\ CellDepsOf(script) \subseteq Range(t.cellDeps)
    /\ HashesOf(script) \subseteq Range(t.headerDeps)

\* C8 as stated: after addCells the skeleton holds every cell dep and header
\* dep carried on the lock or the type of each new input and each new output.
C8_Original ==
    (Returned(call, "matched") \/ Returned(call, "append")) =>
        \A c \in Range(call.inputs) \cup Range(call.outputs) :
            /\ Holds(tx, c.lock)
            /\ \A type \in Range(c.type) : Holds(tx, type)

\* C8 amended: after addCells the skeleton holds every cell dep and header dep
\* carried on the lock of each new input and on the type of each new input and
\* each new output (the lock of an output is not looked at).
C8_NewCellsDepsMerged ==
    (Returned(call, "matched") \/ Returned(call, "append")) =>
        /\ \A c \in Range(call.inputs) : Holds(tx, c.lock)
        /\ \A c \in Range(call.inputs) \cup Range(call.outputs) :
              \A type \in Range(c.type) : Holds(tx, type)

\* C8 witness: addCells has added the typed cell C as an output next to a plain
\* input; the deps of the type of C are there, the ones of its lock are not.
C8_Witness ==
    /\ Returned(call, "append")
    /\ call.inputs = <<cellA>>
    /\ call.outputs = <<cellC>>
    /\ depC \in Range(tx.cellDeps)
    /\ depD \notin Range(tx.cellDeps)

\* C9: in every state reached from the empty skeleton through addCells,
\* addCellDeps and addHeaderDeps the cellDeps fixed boundary is
\* cellDeps.size - 1 and the headerDeps fixed boundary is headerDeps.size - 1.
C9_DepsFullyCommitted ==
    /\ parseFixedEntries(tx).cellDeps = Len(tx.cellDeps) - 1
    /\ parseFixedEntries(tx).headerDeps = Len(tx.headerDeps) - 1

\* C9 witness: a merge that grew a list that was already committed.
C9_Witness ==
    /\ call.op = "addCellDeps"
    /\ Len(call.deps) = 1
    /\ Len(tx.cellDeps) = 3
    /\ Len(tx.headerDeps) = 2

\* C10: for each new input of an addCells that returns, the since stored under
\* the input's index is: none when neither lock nor type carries one; the
\* carried value when only one carries one or both carry the same; else the one
\* whose epoch is later under epochSinceCompare, the lock's on a tie.
ExpectedSince(c) ==
    LET lockSince == c.lock.since
        typeSince == IF c.type = None THEN None ELSE c.type[1].since
    IN IF lockSince = None /\ typeSince = None THEN None
       ELSE IF typeSince = None THEN lockSince
       ELSE IF lockSince = None THEN typeSince
       ELSE IF lockSince = typeSince THEN lockSince
       ELSE IF epochSinceCompare(parseAbsoluteEpochSince(typeSince[1]),
                                 parseAbsoluteEpochSince(lockSince[1])) = 1
            THEN typeSince
            ELSE lockSince

C10_SinceOfNewInput ==
    [][\A mode \in {"matched", "append"} :
          Returned(call', mode) =>
             \A k \in 1..call'.nInputs :
                LET index == (IF mode = "matched" THEN parseFixedEntries(tx).inputs + 1 ELSE Len(tx.inputs)) + k - 1
                    expected == ExpectedSince(call'.inputs[k])
                IN /\ tx'.inputs[index + 1] = call'.inputs[k]
                   /\ IF expected = None
                      THEN index \notin DOMAIN tx'.inputSinces
                      ELSE index \in DOMAIN tx'.inputSinces /\ tx'.inputSinces[index] = expected[1]]_vars

\* C10 witness: addCells has added an input whose type carries the later since
\* and an input whose lock and type sinces are different encodings of one epoch.
C10_Witness ==
    /\ Returned(call, "matched")
    /\ call.inputs = <<sinceTypeLater, sinceTie>>
    /\ tx.inputSinces[0] = epochSince(2, 1, 2)
    /\ tx.inputSinces[1] = epochSince(2, 1, 2)

\* The index at which a returning addCells inserted its new inputs, read from
\* the skeleton before the call.
InsertionPoint(t, mode) == IF mode = "matched" THEN parseFixedEntries(t).inputs + 1 ELSE Len(t.inputs)

\* C11: after any addCells call that returns, inputSinces stays aligned with
\* inputs: the since of each new input is stored under that input's final
\* index, an existing input at index i keeps its since (or its lack of one) at
\* its new index, which is i before the insertion point and i+n at or after
\* it, and the map has no key outside the inputs.
C11_SincesFollowInputs ==
    [][\A mode \in {"matched", "append"} :
          Returned(call', mode) =>
             LET p == InsertionPoint(tx, mode)
                 n == call'.nInputs
             IN /\ \A k \in 1..n :
                      LET index == p + k - 1
                          expected == ExpectedSince(call'.inputs[k])
                      IN /\ tx'.inputs[index + 1] = call'.inputs[k]
                         /\ (expected = None <=> index \notin DOMAIN tx'.inputSinces)
                         /\ expected # None => tx'.inputSinces[index] = expected[1]
                /\ \A i \in 0..(Len(tx.inputs) - 1) :
                      LET j == IF i >= p THEN i + n ELSE i
                      IN /\ tx'.inputs[j + 1] = tx.inputs[i + 1]
                         /\ (i \in DOMAIN tx.inputSinces <=> j \in DOMAIN tx'.inputSinces)
                         /\ i \in DOMAIN tx.inputSinces => tx'.inputSinces[j] = tx.inputSinces[i]
                /\ DOMAIN tx'.inputSinces \subseteq 0..(Len(tx'.inputs) - 1)]_vars

\* A matched call put a since-less input in front of an existing input that
\* has a since: the existing since moved from index 0 to index 1.
C11_Witness ==
    /\ Returned(call, "matched")
    /\ call.inputs = <<cellA>>
    /\ tx.inputs = <<cellA, sinceLockOnly>>
    /\ DOMAIN tx.inputSinces = {1}
    /\ tx.inputSinces[1] = epochSince(1, 0, 1)

\* after is before without its trailing placeholder entries.
TrailingPaddingRemoved(before, after) ==
    /\ Len(after) <= Len(before)
    /\ after = SubSeq(before, 1, Len(after))
    /\ \A i \in (Len(after) + 1)..Len(before) : before[i] = witnessPadding
    /\ (after = <<>> \/ after[Len(after)] # witnessPadding)

\* Every entry of the list has a lock field, possibly an empty one.
LocksPresent(witnesses) ==
    \A i \in 1..Len(witnesses) : WitnessArgsUnpack(witnesses[i]).lock # None

\* C12 as stated: unpacking and repacking any list of valid WitnessArgs
\* encodings, entries with an absent lock included, returns the same list
\* byte for byte except for the removed trailing placeholders.
C12_Original ==
    [][Returned(call', "append") \/ Returned(call', "matched") =>
          TrailingPaddingRemoved(tx.witnesses, tx'.witnesses)]_vars

\* C12: unpacking and repacking a list of valid WitnessArgs encodings whose
\* entries all have a lock field returns the same list byte for byte, except
\* that the trailing entries equal to the empty placeholder are removed.
C12_RepackKeepsBytes ==
    [][(Returned(call', "append") \/ Returned(call', "matched")) /\ LocksPresent(tx.witnesses) =>
          TrailingPaddingRemoved(tx.witnesses, tx'.witnesses)]_vars

\* A list of two entries with all three fields present came back from a call
\* without new cells.
C12_Witness ==
    /\ Returned(call, "append")
    /\ call.nInputs = 0 /\ call.nOutputs = 0
    /\ Len(tx.witnesses) = 2
    /\ \A i \in 1..2 :
          tx.witnesses[i] = WitnessArgsPack([lock |-> Some(<<1>>), inputType |-> Some(<<7>>), outputType |-> Some(<<8>>)])

\* The fields of the witness at the 0-based index i, the empty placeholder
\* standing for an entry past the end of the list.
WitnessAt(t, i) ==
    WitnessArgsUnpack(IF i < Len(t.witnesses) THEN t.witnesses[i + 1] ELSE witnessPadding)

\* The lock witness of a cell, empty when the lock carries none.
LockWitnessOf(c) == IF c.lock.witness = None THEN Some(<<>>) ELSE c.lock.witness

\* The index at which a returning addCells inserted its new outputs.
OutputInsertionPoint(t, mode) == IF mode = "matched" THEN parseFixedEntries(t).outputs + 1 ELSE Len(t.outputs)

\* C13: after any addCells call that returns, witnesses stay aligned with the
\* cells: the witness at the final index of a new input carries that input's
\* lock witness (empty when none) and its type witness as inputType, the
\* witness at the final index of a new output carries its type witness as
\* outputType, the lock/inputType of an existing input and the outputType of
\* an existing output are found at the new index of their cell, and the list
\* never ends with an empty placeholder.
C13_WitnessesFollowCells ==
    [][\A mode \in {"matched", "append"} :
          Returned(call', mode) =>
             LET p == InsertionPoint(tx, mode)
                 q == OutputInsertionPoint(tx, mode)
                 n == call'.nInputs
                 m == call'.nOutputs
             IN /\ \A k \in 1..n :
                      /\ tx'.inputs[p + k] = call'.inputs[k]
                      /\ WitnessAt(tx', p + k - 1).lock = LockWitnessOf(call'.inputs[k])
                      /\ WitnessAt(tx', p + k - 1).inputType = typeWitnessOf(call'.inputs[k])
                /\ \A k \in 1..m :
                      /\ tx'.outputs[q + k] = call'.outputs[k]
                      /\ WitnessAt(tx', q + k - 1).outputType = typeWitnessOf(call'.outputs[k])
                /\ \A i \in 0..(Len(tx.inputs) - 1) :
                      LET j == IF i >= p THEN i + n ELSE i
                      IN /\ tx'.inputs[j + 1] = tx.inputs[i + 1]
                         /\ WitnessAt(tx', j).lock = WitnessAt(tx, i).lock
                         /\ WitnessAt(tx', j).inputType = WitnessAt(tx, i).inputType
                /\ \A i \in 0..(Len(tx.outputs) - 1) :
                      LET j == IF i >= q THEN i + m ELSE i
                      IN /\ tx'.outputs[j + 1] = tx.outputs[i + 1]
                         /\ WitnessAt(tx', j).outputType = WitnessAt(tx, i).outputType
                /\ (tx'.witnesses = <<>> \/ tx'.witnesses[Len(tx'.witnesses)] # witnessPadding)]_vars

\* A matched call put the plain cell in front of the cell with witnesses, as
\* input and as output: the lock, inputType and outputType of that cell moved
\* from witness 0 to witness 1.
C13_Witness ==
    /\ Returned(call, "matched")
    /\ call.inputs = <<cellA>> /\ call.outputs = <<cellA>>
    /\ tx.inputs = <<cellA, cellC>> /\ tx.outputs = <<cellA, cellC>>
    /\ tx.witnesses = <<witnessPadding,
                        WitnessArgsPack([lock |-> Some(<<9>>), inputType |-> Some(<<5>>), outputType |-> Some(<<5>>)])>>

\* The epoch is a valid triple: a positive length and an index below it.
ValidEpoch(e) == e.length > 0 /\ e.index >= 0 /\ e.index < e.length

\* C14: for operands of the same non-zero length with index < length,
\* epochSinceAdd(e, delta) returns an epoch of that length whose value
\* number + index/length is the sum of the values of e and delta, normalised
\* (0 <= index < length).
C14_AddIsSum ==
    (call.op = "epochSinceAdd" /\ ValidEpoch(call.e) /\ ValidEpoch(call.delta)
        /\ call.e.length = call.delta.length) =>
        LET length == call.e.length
        IN /\ call.result.length = length
           /\ 0 <= call.result.index /\ call.result.index < length
           /\ call.result.number * length + call.result.index =
                 (call.e.number * length + call.e.index) + (call.delta.number * length + call.delta.index)

Sign(n) == IF n < 0 THEN -1 ELSE IF n > 0 THEN 1 ELSE 0

\* C15: for valid epoch triples a and b, of equal or different lengths,
\* epochSinceCompare(a, b) is the sign of value(a) - value(b), where value is
\* number + index/length (compared here over the common denominator).
C15_CompareIsSign ==
    (call.op = "epochSinceCompare" /\ ValidEpoch(call.e0) /\ ValidEpoch(call.e1)) =>
        call.result = Sign((call.e0.number * call.e0.length + call.e0.index) * call.e1.length
                           - (call.e1.number * call.e1.length + call.e1.index) * call.e0.length)

\* 1 + 1/3 was compared with 1 + 1/2 and found smaller.
C15_Witness ==
    /\ call.op = "epochSinceCompare"
    /\ call.e0 = [length |-> 3, index |-> 1, number |-> 1]
    /\ call.e1 = [length |-> 2, index |-> 1, number |-> 1]
    /\ call.result = -1

\* C16: epochSinceAdd is associative: for valid epochs a, b, c, of equal or
\* different lengths, adding c to a + b gives the epoch that adding b + c to
\* a gives.
C16_AddIsAssociative ==
    call.op = "epochSinceAddThree" => call.left = call.right

ZeroEpochLength == "ZeroEpochLength"

\* C17: epochSinceCompare and epochSinceAdd fail with the error
\* ZeroEpochLength whenever the length of either operand is zero.
C17_ZeroLengthFails ==
    /\ (call.op = "epochSinceCompare" /\ (call.e0.length = 0 \/ call.e1.length = 0)) =>
          call.err = ZeroEpochLength
    /\ (call.op = "epochSinceAdd" /\ (call.e.length = 0 \/ call.delta.length = 0)) =>
          call.err = ZeroEpochLength

\* C18: scriptEq(a, b) throws errorBothScriptUndefined exactly when both
\* arguments are absent, returns false when exactly one is absent, and
\* otherwise returns true exactly when codeHash, hashType and args are all
\* equal, whatever the other fields (cellDeps, since, witness) are.
C18_ScriptEq ==
    call.op = "scriptEq" =>
        /\ (call.err = errorBothScriptUndefined <=> (call.s0 = None /\ call.s1 = None))
        /\ (call.err # errorBothScriptUndefined => call.err = noError /\ call.result # None)
        /\ ((call.s0 = None) # (call.s1 = None) => call.result = Some(FALSE))
        /\ (call.s0 # None /\ call.s1 # None =>
              call.result = Some(/\ call.s0[1].codeHash = call.s1[1].codeHash
                                 /\ call.s0[1].hashType = call.s1[1].hashType
                                 /\ call.s0[1].args = call.s1[1].args))

\* Two scripts with the same codeHash, hashType and args and different
\* cellDeps, witness and since were found equal.
C18_Witness ==
    /\ call.op = "scriptEq"
    /\ call.s0 = Some([I8ScriptFrom("dao", <<1>>, <<>>, <<>>, None, None) EXCEPT !.hashType = "type"])
    /\ call.s1 = Some([I8ScriptFrom("dao", <<1>>, <<depA>>, <<>>, Some(<<7>>), Some(epochSince(1, 0, 1)))
                          EXCEPT !.hashType = "type"])
    /\ call.result = Some(TRUE)

\* C19: I8CellFrom replaces the capacity by the computed minimal capacity only
\* when the caller left the capacity unset; a capacity the caller passes is the
\* capacity of the resulting cell.
C19_ExplicitCapacityKept ==
    call.op = "I8CellFrom" =>
        IF call.values.capacity = None
        THEN call.result.capacity = minimalCellCapacity(call.result)
        ELSE call.result.capacity = call.values.capacity[1]

\* The cell has the DAO type and the lock expander knows its lock.
OwnedDao(c) ==
    /\ accountLockExpander(c) # None
    /\ c.type # None
    /\ c.type[1].codeHash = defaultDaoScript.codeHash
    /\ c.type[1].hashType = defaultDaoScript.hashType
    /\ c.type[1].args = defaultDaoScript.args

IsDeposit(c) == OwnedDao(c) /\ c.data = DEPOSIT_DATA

IsWithdrawalRequest(c) == OwnedDao(c) /\ c.data # DEPOSIT_DATA

IsNotDao(c) == ~OwnedDao(c)

\* The sifted cell is the input cell with the given header deps on its type.
SiftedAs(sifted, c, headers) ==
    /\ sifted.outPoint = c.outPoint
    /\ sifted.capacity = c.capacity
    /\ sifted.data = c.data
    /\ sifted.type # None
    /\ sifted.type[1].headerDeps = headers

\* C20: when daoSifter returns, every input cell is in exactly one of
\* deposits, withdrawalRequests and notDaos, in the order of the inputs: the
\* deposits are the owned DAO cells with data 0x0000000000000000, each with
\* headerDeps [own header]; the withdrawal requests are the owned DAO cells
\* with other data, each with headerDeps [own header, header of the block
\* number decoded from its data]; notDaos holds all other cells unchanged.
C20_DaoSifterPartitions ==
    (call.op = "daoSifter" /\ call.err = noError) =>
        LET deposits == SelectSeq(call.inputs, IsDeposit)
            withdrawalRequests == SelectSeq(call.inputs, IsWithdrawalRequest)
            sifted == call.result[1]
        IN /\ sifted.notDaos = SelectSeq(call.inputs, IsNotDao)
           /\ Len(sifted.deposits) = Len(deposits)
           /\ \A k \in 1..Len(deposits) :
                 SiftedAs(sifted.deposits[k], deposits[k], <<getHeader(deposits[k].blockNumber[1])>>)
           /\ Len(sifted.withdrawalRequests) = Len(withdrawalRequests)
           /\ \A k \in 1..Len(withdrawalRequests) :
                 SiftedAs(sifted.withdrawalRequests[k], withdrawalRequests[k],
                          <<getHeader(withdrawalRequests[k].blockNumber[1]),
                            getHeader(Uint64Unpack(withdrawalRequests[k].data))>>)

\* A withdrawal request, a deposit of somebody else and a deposit were sifted
\* into the three lists; the request carries the headers of blocks 3 and 2.
C20_Witness ==
    /\ call.op = "daoSifter"
    /\ call.inputs = <<withdrawalRequestCell, foreignDepositCell, depositCell>>
    /\ call.err = noError
    /\ Len(call.result[1].deposits) = 1
    /\ Len(call.result[1].notDaos) = 1
    /\ call.result[1].withdrawalRequests[1].type[1].headerDeps = <<chainHeaders[3], chainHeaders[2]>>

\* The cell has the DAO type.
DaoTyped(c) ==
    /\ c.type # None
    /\ c.type[1].codeHash = defaultDaoScript.codeHash
    /\ c.type[1].hashType = defaultDaoScript.hashType
    /\ c.type[1].args = defaultDaoScript.args

\* C21 as stated: daoSifter fails with errorUndefinedBlockNumber and returns no
\* lists whenever the inputs contain a cell with the DAO type and no
\* blockNumber.
C21_Original ==
    (call.op = "daoSifter" /\ \E i \in 1..Len(call.inputs) :
                                 DaoTyped(call.inputs[i]) /\ call.inputs[i].blockNumber = None) =>
        call.err = errorUndefinedBlockNumber /\ call.result = None

\* C21: daoSifter fails with errorUndefinedBlockNumber and returns no lists
\* whenever the inputs contain a cell with the DAO type, owned per the lock
\* expander, that has no blockNumber.
C21_UnnumberedOwnedDaoThrows ==
    (call.op = "daoSifter" /\ \E i \in 1..Len(call.inputs) :
                                 OwnedDao(call.inputs[i]) /\ call.inputs[i].blockNumber = None) =>
        call.err = errorUndefinedBlockNumber /\ call.result = None

\* A deposit followed by a deposit without block number made the call throw.
C21_Witness ==
    /\ call.op = "daoSifter"
    /\ call.inputs = <<depositCell, unnumberedDepositCell>>
    /\ call.err = errorUndefinedBlockNumber
    /\ call.result = None

\* C22: daoRequestWithdrawalFrom fails with errorDifferentSizeLock when one of
\* the deposits has lock args of another length than the args of accountLock,
\* wherever that deposit is in the list, and the skeleton is then left as it
\* was: no cell is added.
C22_LockSizeMismatchThrows ==
    [][(call'.op = "daoRequestWithdrawalFrom"
          /\ \E i \in 1..Len(call'.deposits) : Len(call'.deposits[i].lock.args) # Len(call'.lock.args)) =>
          call'.err = errorDifferentSizeLock /\ tx' = tx]_vars

\* A call with a matching deposit followed by a deposit with longer lock args
\* threw and the skeleton is still without inputs.
C22_Witness ==
    /\ call.op = "daoRequestWithdrawalFrom"
    /\ call.deposits = <<siftedDeposit, siftedLongLockDeposit>>
    /\ call.lock = accountLock
    /\ call.err = errorDifferentSizeLock
    /\ Len(tx.inputs) = 0

\* C23: after daoWithdrawFrom(tx, requests) every request is an input whose
\* witness carries as inputType the 8-byte little-endian encoding of the index
\* i at which headerDeps of the resulting skeleton holds the hash of the
\* deposit header of the request, the last of its two headerDeps, and the
\* hashes of both headers of the request are in headerDeps.
C23_WitnessIsDepositHeaderIndex ==
    [][call'.op = "daoWithdrawFrom" =>
          \A k \in 1..Len(call'.withdrawalRequests) :
             LET r == call'.withdrawalRequests[k]
                 index == Len(tx.inputs) + k - 1
                 inputType == WitnessAt(tx', index).inputType
             IN /\ tx'.inputs[index + 1].outPoint = r.outPoint
                /\ inputType # None
                /\ Len(inputType[1]) = 8
                /\ Uint64Unpack(inputType[1]) + 1 \in DOMAIN tx'.headerDeps
                /\ tx'.headerDeps[Uint64Unpack(inputType[1]) + 1] = r.type[1].headerDeps[2].hash
                /\ r.type[1].headerDeps[1].hash \in Range(tx'.headerDeps)]_vars

\* A first call added the request for the deposit of block 1, a second one the
\* request for the deposit of block 2: the header of block 2 is the third
\* header dep and the witness of the second input says 2.
C23_Witness ==
    /\ call.op = "daoWithdrawFrom"
    /\ call.withdrawalRequests = <<siftedRequest>>
    /\ Len(tx.inputs) = 2
    /\ tx.headerDeps = <<chainHeaders[3].hash, chainHeaders[1].hash, chainHeaders[2].hash>>
    /\ WitnessAt(tx, 1).inputType = Some(<<2, 0, 0, 0, 0, 0, 0, 0>>)

\* The sum of the amounts daoRequestWithdrawalWith estimates for the cells,
\* with the header of block 3 as the tip.
RECURSIVE SumOfEstimates(_)
SumOfEstimates(cells) ==
    IF cells = <<>> THEN zero
    ELSE BIadd(withdrawalAmountEstimation(Head(cells), chainHeaders[3].dao), SumOfEstimates(Tail(cells)))

\* The deposit is an input of the skeleton.
SelectedIn(t, d) == \E i \in 1..Len(t.inputs) : t.inputs[i].outPoint = d.outPoint

\* C24: the estimated withdrawal amounts of the deposits that
\* daoRequestWithdrawalWith selects, the inputs of the skeleton it returns, sum
\* up to at most maxWithdrawalAmount, for all lists of deposits and all
\* budgets; and in a call without locking periods and without a limit on the
\* cells a deposit is selected exactly when its capacity is within the budget
\* and its amount fits on top of the ones selected before it, so one that
\* does not fit is skipped and a later, smaller one is still selected.
C24_SelectionWithinBudget ==
    [][call'.op = "daoRequestWithdrawalWith" =>
          /\ BIgte(call'.maxWithdrawalAmount, SumOfEstimates(tx'.inputs))
          /\ (call'.minLocking = None /\ call'.maxWithdrawalCells = None) =>
                \A k \in 1..Len(call'.deposits) :
                   LET d == call'.deposits[k]
                       before == SelectSeq(SubSeq(call'.deposits, 1, k - 1), LAMBDA e : SelectedIn(tx', e))
                   IN SelectedIn(tx', d) <=>
                         /\ BIgte(call'.maxWithdrawalAmount, d.capacity)
                         /\ BIgte(call'.maxWithdrawalAmount,
                                  BIadd(SumOfEstimates(before), withdrawalAmountEstimation(d, chainHeaders[3].dao)))]_vars

\* With a budget of 400 CKB the deposit of 150 CKB was selected, the one of
\* 300 CKB after it was skipped and the one of 200 CKB after that was selected.
C24_Witness ==
    /\ call.op = "daoRequestWithdrawalWith"
    /\ call.deposits = <<smallDeposit, bigDeposit, middleDeposit>>
    /\ call.maxWithdrawalAmount = Capacity(400, 0)
    /\ call.minLocking = None
    /\ call.maxWithdrawalCells = None
    /\ [i \in 1..Len(tx.inputs) |-> tx.inputs[i].outPoint] = <<smallDeposit.outPoint, middleDeposit.outPoint>>
    /\ Len(tx.outputs) = 2

\* C25: daoRequestWithdrawalWith turns at most maxWithdrawalCells deposits into
\* withdrawal requests, for every limit, 0 included.
C25_AtMostMaxCells ==
    [][(call'.op = "daoRequestWithdrawalWith" /\ call'.maxWithdrawalCells # None) =>
          Len(tx'.outputs) <= call'.maxWithdrawalCells[1]]_vars

\* C27: for all sizes and fee rates that are not negative calculateFee(size,
\* feeRate) is the ceiling of size * feeRate / 1000 in integer arithmetic:
\* the least integer whose thousandfold is not below size * feeRate, which is
\* the quotient when size * feeRate is a multiple of 1000 and the quotient plus
\* one otherwise.
C27_FeeIsCeiling ==
    [][call'.op = "calculateFee" =>
          LET product == call'.size * call'.feeRate
          IN /\ call'.result * 1000 >= product
             /\ (call'.result - 1) * 1000 < product
             /\ call'.result = IF product % 1000 = 0 THEN product \div 1000 ELSE product \div 1000 + 1]_vars

\* The fee of 1001 bytes at a rate of 7 is 8: 7007 / 1000 rounded up.
C27_Witness ==
    /\ call.op = "calculateFee"
    /\ call.size = 1001
    /\ call.feeRate = 7
    /\ call.result = 8

\* C28 as stated: calculateFee(999, 1000) = 1, calculateFee(1000, 1000) = 1 and
\* calculateFee(1001, 1000) = 2.
C28_Original ==
    [][(call'.op = "calculateFee" /\ call'.feeRate = 1000) =>
          /\ call'.size = 999 => call'.result = 1
          /\ call'.size = 1000 => call'.result = 1
          /\ call'.size = 1001 => call'.result = 2]_vars

\* C28: calculateFee(999, 1) = 1, calculateFee(1000, 1) = 1 and
\* calculateFee(1001, 1) = 2: at a fee rate of 1 per 1000 bytes the fee of 999
\* bytes is rounded up, the one of 1000 bytes is exact and the one of 1001
\* bytes is rounded up to the next integer.
C28_FeeRoundsUp ==
    [][(call'.op = "calculateFee" /\ call'.feeRate = 1) =>
          /\ call'.size = 999 => call'.result = 1
          /\ call'.size = 1000 => call'.result = 1
          /\ call'.size = 1001 => call'.result = 2]_vars

\* The fee of 1000 bytes at a rate of 1 was calculated as 1.
C28_Witness ==
    /\ call.op = "calculateFee"
    /\ call.size = 1000
    /\ call.feeRate = 1
    /\ call.result = 1

\* The effective value of an input: the maximum withdrawable amount of a
\* withdrawal request, the capacity of any other cell.
EffectiveValue(c) ==
    IF c.type # None /\ c.type[1].codeHash = "dao" /\ c.data # DEPOSIT_DATA
    THEN withdrawalAmountEstimation([c EXCEPT !.type[1].headerDeps = <<c.type[1].headerDeps[2]>>],
                                    c.type[1].headerDeps[1].dao)
    ELSE c.capacity

\* Sums over the cells of a list, from its end.
RECURSIVE SumOfEffectiveValues(_)
SumOfEffectiveValues(cells) ==
    IF cells = <<>> THEN zero
    ELSE BIadd(SumOfEffectiveValues(SubSeq(cells, 1, Len(cells) - 1)), EffectiveValue(cells[Len(cells)]))

RECURSIVE SumOfCapacities(_)
SumOfCapacities(cells) ==
    IF cells = <<>> THEN zero
    ELSE BIadd(SumOfCapacities(SubSeq(cells, 1, Len(cells) - 1)), cells[Len(cells)].capacity)

\* Effective input value minus output capacity minus the fee, which is taken
\* exactly when the fee rate is positive and there is an output.
BalanceOf(t, feeRate) ==
    LET fee == IF feeRate > 0 /\ Len(t.outputs) >= 1 THEN calculateFee(txSize(t), feeRate) ELSE 0
    IN BIsub(SumOfEffectiveValues(t.inputs), BIadd(SumOfCapacities(t.outputs), BIfrom(0, fee)))

\* C26: ckbDelta(tx, feeRate) of src/unnamed/part_000 is the sum over the
\* inputs of their effective value (the maximum withdrawable amount of a
\* withdrawal request, the capacity of any other input) minus the sum of the
\* capacities of the outputs, minus calculateFee(txSize(tx), feeRate) exactly
\* when feeRate > 0 and the skeleton has at least one output.
C26_CkbDeltaIsBalance ==
    [][call'.op = "ckbDelta" => call'.result = BalanceOf(tx', call'.feeRate)]_vars

\* The skeleton withdraws the request for the deposit of block 2 into one
\* output of 200 CKB: at a fee rate of 1000 the delta is the interest of
\* 10.63636363 CKB less the fee of 386 shannons for 386 bytes.
C26_Witness ==
    /\ call.op = "ckbDelta"
    /\ call.feeRate = 1000
    /\ Len(tx.inputs) = 1 /\ tx.inputs[1].outPoint = siftedRequest.outPoint
    /\ tx.outputs = <<outputOf(200)>>
    /\ call.result = Capacity(10, 63635977)

\* C29: daoPreSendChecks throws errorIOBalancing for every skeleton whose
\* effective input value minus the capacity of its outputs minus the fee is
\* not zero, and not for a skeleton where it is zero: a skeleton whose input
\* and output have the same capacity passes at feeRate 0 and is rejected at a
\* feeRate above 0, one whose outputs hold less or more than its inputs is
\* rejected.
C29_UnbalancedRejected ==
    [][call'.op = "daoPreSendChecks" =>
          (BalanceOf(tx', call'.feeRate) # zero <=> call'.err = errorIOBalancing)]_vars

\* The call of sendAndWaitForTransaction ended.
SendEnded == call.op = "sendAndWaitForTransaction" /\ call.pc = "done"

\* C30: sendAndWaitForTransaction calls send exactly once, before any call of
\* getStatus, and always ends: it calls getStatus at most secondsTimeout
\* times and ends in exactly one of three ways: it returns the txHash, only
\* after getStatus answered committed; it throws errorUnexpectedTxState; or it
\* throws errorTimeOut, after secondsTimeout calls of getStatus that all
\* answered pending or proposed.
C30_SendOnceThenPollToAnEnd ==
    /\ [](call.op = "sendAndWaitForTransaction" =>
             /\ call.sent <= 1
             /\ Len(call.answers) > 0 => call.sent = 1
             /\ Len(call.answers) <= call.secondsTimeout)
    /\ [](SendEnded =>
             /\ call.sent = 1
             /\ \/ /\ call.returned = Some("0xtx") /\ call.err = noError
                   /\ Len(call.answers) > 0 /\ call.answers[Len(call.answers)] = "committed"
                \/ /\ call.returned = None /\ call.err = errorUnexpectedTxState
                \/ /\ call.returned = None /\ call.err = errorTimeOut
                   /\ Len(call.answers) = call.secondsTimeout
                   /\ \A k \in 1..Len(call.answers) : call.answers[k] \in {"pending", "proposed"})
    /\ <>SendEnded

\* A call with secondsTimeout = 2 timed out after two polls, the first
\* answered pending and the second proposed.
C30_Witness ==
    /\ SendEnded
    /\ call.secondsTimeout = 2
    /\ call.answers = <<"pending", "proposed">>
    /\ call.err = errorTimeOut
    /\ call.sent = 1

\* C31: in sendAndWaitForTransaction an answer of getStatus other than
\* committed, pending or proposed, unknown and rejected included, and also the
\* answer to the first poll, ends the call at once with
\* errorUnexpectedTxState: the step that takes the answer ends the call
\* without another send, and a call that ended polls and sends no more.
C31_UnexpectedStatusIsFatal ==
    [][call.op = "sendAndWaitForTransaction" =>
          /\ (/\ Len(call'.answers) = Len(call.answers) + 1
              /\ call'.answers[Len(call'.answers)] \notin {"committed", "pending", "proposed"}) =>
                 /\ call'.pc = "done"
                 /\ call'.err = errorUnexpectedTxState
                 /\ call'.returned = None
                 /\ call'.sent = call.sent
          /\ call.pc = "done" => call' = call]_vars

\* The first poll of a call answered rejected and the call ended with
\* errorUnexpectedTxState after one send and one poll.
C31_Witness ==
    /\ SendEnded
    /\ call.answers = <<"rejected">>
    /\ call.err = errorUnexpectedTxState
    /\ call.sent = 1
    /\ call.secondsTimeout > 1

\* The skeleton with the first k of the funding sources of a call of fund.
RECURSIVE FundedWith(_, _, _)
FundedWith(t, sources, k) ==
    IF k = 0 THEN t ELSE addFunds(FundedWith(t, sources, k - 1), sources[k])

\* The prefix covers the outputs, the fee and a change cell.
Covers(t, sources, k, feeRate) ==
    BIgte(BalanceOf(FundedWith(t, sources, k), feeRate), changeCell(accountLock).capacity)

\* C32: fund adds the funding sources one at a time, the withdrawal requests
\* first and the capacity cells after them, each in the given order, and stops
\* at the first prefix whose delta (effective input value minus output
\* capacity minus fee) is at least the minimal capacity of a change cell, to
\* which it appends one change output with that delta as capacity; it throws
\* errorNotEnoughFunds exactly when no prefix of the funding sources reaches
\* that amount.
C32_FundStopsAtFirstCoveringPrefix ==
    [][call'.op = "fund" =>
          LET sources == fundingSources(call'.withdrawalRequests, call'.capacities)
              covering == {k \in 1..Len(sources) : Covers(tx, sources, k, call'.feeRate)}
          IN IF covering = {}
             THEN call'.err = errorNotEnoughFunds /\ tx' = tx
             ELSE LET k == CHOOSE k \in covering : \A j \in covering : k <= j
                      funded == FundedWith(tx, sources, k)
                  IN /\ call'.err = noError
                     /\ tx'.inputs = funded.inputs
                     /\ tx'.outputs =
                           Append(funded.outputs,
                                  [changeCell(accountLock) EXCEPT !.capacity = BalanceOf(funded, call'.feeRate)])]_vars

\* C36: whenever fund returns a skeleton, the skeleton is balanced at the fee
\* rate of the call: its effective input value minus its output capacity
\* minus its fee is zero with the change cell, and the balance step of
\* daoPreSendChecks passes it.
C36_FundedIsBalanced ==
    [][(call'.op = "fund" /\ call'.err = noError) =>
          /\ BalanceOf(tx', call'.feeRate) = zero
          /\ daoPreSendChecksError(tx', call'.feeRate, chainHeaders[3].epoch, defaultMinLock, defaultMaxLock)
                # errorIOBalancing]_vars

\* C33: after daoRequestWithdrawalFrom every deposit is at the same index in
\* the inputs as its withdrawal request (same capacity, lock and type, the
\* block number of the deposit as data) is in the outputs, and this still
\* holds after any later calls of addCells in matched or append mode: further
\* withdrawal requests, withdrawals, capacity cells and outputs.
C33_DepositsFaceTheirRequests ==
    \A i \in 1..Len(tx.inputs) :
        (isDao(tx.inputs[i]) /\ tx.inputs[i].data = DEPOSIT_DATA) =>
            /\ i <= Len(tx.outputs)
            /\ tx.outputs[i].capacity = tx.inputs[i].capacity
            /\ tx.outputs[i].lock = tx.inputs[i].lock
            /\ tx.outputs[i].type = tx.inputs[i].type
            /\ tx.outputs[i].data = Uint64Pack(tx.inputs[i].blockNumber[1])

\* A capacity cell was appended as input before the withdrawal of a deposit
\* was requested: the deposit and its request are both first, before the
\* capacity cell.
C33_Witness ==
    /\ call.op = "daoRequestWithdrawalFrom"
    /\ call.err = noError
    /\ Len(tx.inputs) = 2
    /\ tx.inputs[1] = siftedDeposit
    /\ tx.inputs[2] = siftedCapacity
    /\ Len(tx.outputs) = 1

\* The fixed boundaries of a skeleton are in order: the one of the inputs is
\* the one of the outputs, each boundary is below the size of its list, and
\* fixedEntries holds at most one entry per field.
BoundariesInOrder(t) ==
    LET fixedEntries == parseFixedEntries(t)
    IN /\ fixedEntries.inputs = fixedEntries.outputs
       /\ fixedEntries.inputs < Len(t.inputs)
       /\ fixedEntries.outputs < Len(t.outputs)
       /\ fixedEntries.cellDeps < Len(t.cellDeps)
       /\ fixedEntries.headerDeps < Len(t.headerDeps)
       /\ \A i, j \in 1..Len(t.fixedEntries) : t.fixedEntries[i].field = t.fixedEntries[j].field => i = j

\* C34: in every state of a skeleton built from the empty one through addCells
\* and the dao helpers that call it the boundaries are in order as above, no
\* step makes a boundary smaller, and so no matched addCells throws
\* errorDifferentIOFixedEntries.
C34_BoundariesStayInOrder ==
    [][/\ BoundariesInOrder(tx)
       /\ BoundariesInOrder(tx')
       /\ \A f \in {"cellDeps", "headerDeps", "inputs", "outputs"} :
             parseFixedEntries(tx')[f] >= parseFixedEntries(tx)[f]
       /\ call'.op = "daoRequestWithdrawalFrom" => call'.err # errorDifferentIOFixedEntries]_vars

\* A second withdrawal was requested on a skeleton whose boundaries were at
\* the first pair: both boundaries moved on to the second pair.
C34_Witness ==
    /\ call.op = "daoRequestWithdrawalFrom"
    /\ call.err = noError
    /\ Len(call.deposits) = 1
    /\ Len(tx.inputs) = 2 /\ isDao(tx.inputs[1]) /\ isDao(tx.inputs[2])
    /\ parseFixedEntries(tx).inputs = 1
    /\ parseFixedEntries(tx).outputs = 1

\* The list keeps each of its entries at its index in the next state.
PrefixStable(deps, next) == \A i \in 1..Len(deps) : i <= Len(next) /\ next[i] = deps[i]

\* C35: every call of addCells, addCellDeps and addHeaderDeps on a skeleton
\* built from the empty one keeps each cell dep and each header dep at its
\* index and only appends new ones, so that after any later operations the
\* index daoWithdrawFrom packed into the witness of a withdrawal request is
\* still the index of the hash of its deposit header in headerDeps.
C35_DepsArePrefixStable ==
    [][/\ PrefixStable(tx.cellDeps, tx'.cellDeps)
       /\ PrefixStable(tx.headerDeps, tx'.headerDeps)
       /\ \A i \in 1..Len(tx'.inputs) :
             isDaoWithdrawalRequest(tx'.inputs[i]) =>
                LET inputType == WitnessAt(tx', i - 1).inputType
                IN /\ inputType # None
                   /\ Uint64Unpack(inputType[1]) + 1 \in DOMAIN tx'.headerDeps
                   /\ tx'.headerDeps[Uint64Unpack(inputType[1]) + 1]
                         = tx'.inputs[i].type[1].headerDeps[2].hash]_vars

\* A header dep was added, then a withdrawal, whose deposit header went to
\* index 2, then another header dep: the witness still says 2 and the deposit
\* header is still the third of four header deps.
C35_Witness ==
    /\ call.op = "addHeaderDeps"
    /\ Len(tx.inputs) = 1 /\ tx.inputs[1].outPoint = siftedRequest.outPoint
    /\ tx.headerDeps = <<header1.hash, chainHeaders[3].hash, chainHeaders[2].hash, header2.hash>>
    /\ WitnessAt(tx, 0).inputType = Some(<<2, 0, 0, 0, 0, 0, 0, 0>>)

\* C38: after every call of initializeChainAdapter(chain, config, rpcUrl,
\* isLightClientRpc), in any sequence of such calls, getChainInfo() returns
\* the chain, the rpcUrl and the isLightClientRpc of the most recent call
\* (the defaults where the call left them out).
C38_ChainInfoIsLastCall ==
    [][(call'.op = "getChainInfo" /\ call'.last # None) =>
          LET last == call'.last[1]
          IN /\ call'.result[1].chain = last.chain
             /\ call'.result[1].rpcUrl = IF last.rpcUrl = None THEN chain2RpcUrl[last.chain] ELSE last.rpcUrl[1]
             /\ call'.result[1].isLightClientRpc =
                   (IF last.isLightClientRpc = None THEN FALSE ELSE last.isLightClientRpc[1])]_vars

\* The candidates of a call: the deposits whose capacity is within the budget
\* and whose withdrawal epoch, for a request at the tip epoch plus minLock, is
\* not after the tip epoch plus maxLock, by ascending withdrawal epoch.
CandidatesOf(c) ==
    LET requestEpoch == epochSinceAdd(c.tipEpoch, requestMinLock)
        epochOf(d) == withdrawalEpoch(d, requestEpoch)
        kept == SelectSeq(c.deposits, LAMBDA d :
                    /\ BIgte(c.maxWithdrawalAmount, d.capacity)
                    /\ epochSinceCompare(epochOf(d), epochSinceAdd(c.tipEpoch, c.maxLock)) <= 0)
    IN SortSeq(kept, LAMBDA a, b : epochSinceCompare(epochOf(a), epochOf(b)) < 0)

\* C37: requestWithdrawalWith of dao.ts withdraws the earliest deposits under
\* budget: the deposits it selects, the inputs of the skeleton it returns, are
\* a prefix of the candidates sorted by ascending withdrawal epoch, and the
\* sum of their capacities is at most maxWithdrawalAmount.
C37_EarliestDepositsWithinBudget ==
    [][call'.op = "requestWithdrawalWith" =>
          /\ Len(tx'.inputs) <= Len(CandidatesOf(call'))
          /\ \A i \in 1..Len(tx'.inputs) : tx'.inputs[i].outPoint = CandidatesOf(call')[i].outPoint
          /\ BIgte(call'.maxWithdrawalAmount, SumOfCapacities(tx'.inputs))]_vars

\* The part of C37 that holds: the selected deposits are a prefix of the
\* candidates by ascending withdrawal epoch.
C37_PrefixOfCandidates ==
    [][call'.op = "requestWithdrawalWith" =>
          /\ Len(tx'.inputs) <= Len(CandidatesOf(call'))
          /\ \A i \in 1..Len(tx'.inputs) : tx'.inputs[i].outPoint = CandidatesOf(call')[i].outPoint]_vars

\* A call that selected more than one deposit.
C37_SeveralSelected ==
    /\ call.op = "requestWithdrawalWith"
    /\ Len(tx.inputs) >= 2

====
